---------------------------- MODULE Spec2Model ----------------------------
(***************************************************************************)
(* Gomoku: the rules engine (GameModel) and the search engine (AIPlayer).  *)
(*                                                                         *)
(* gameModel is the GameModel object, one record field per object field.   *)
(* The methods are operators on that record, written lower-case as in the  *)
(* source (makeMove, undoMove, checkWin, ...); the actions that call them  *)
(* are capitalised (MakeMove, UndoMove, ...).  JavaScript's null is 0.     *)
(***************************************************************************)
EXTENDS Integers, Sequences, FiniteSets, TLC

VARIABLES
    pc,         \* where control is inside a call into AIPlayer
    ops,        \* number of calls made so far
    tasks,      \* the event loop: reply timers set and not yet fired, and
                \* invocations of makeAIMove begun and not yet finished
    gameModel,  \* the GameModel object
    aiPlayer,   \* the AIPlayer object
    now,        \* the reading of Date.now()
    inputs,     \* what the caller may pass to the calls of this run
    last,       \* the last call that returned: its name, arguments, return
                \* value, and the gameModel it was made on
    prev,       \* the call before the last one
    call,       \* the call into AIPlayer in progress, or finished last
    stack,      \* the activations of minimax, the innermost last
    retval,     \* what the minimax activation that returned last returned
    gameController, \* the GameController object: isGameRunning, isAIThinking
    gameMode    \* the value of the select element 'gameMode'

rulesVars == <<gameModel, now, inputs, ops, last, prev>>
searchVars == <<aiPlayer, pc, call, stack, retval>>
controlVars == <<gameController, gameMode, tasks>>
vars == <<pc, ops, tasks, gameModel, aiPlayer, now, inputs, last, prev, call,
          stack, retval, gameController, gameMode>>

(***************************************************************************)
(* Bounds and program constants                                            *)
(***************************************************************************)
MaxOps == 5         \* calls per run
MaxRadius == 3      \* getRelevantEmptyCells is called with radius 0..MaxRadius

DefaultBoardSize == 15

Cell(r, c) == [row |-> r, col |-> c]

Min(a, b) == IF a < b THEN a ELSE b
Max(a, b) == IF a > b THEN a ELSE b

(***************************************************************************)
(* GameModel                                                               *)
(***************************************************************************)
initializeBoard(size) == [r \in 0..(size - 1) |-> [c \in 0..(size - 1) |-> 0]]

NewGameModel ==
    [ boardSize     |-> DefaultBoardSize,
      board         |-> initializeBoard(DefaultBoardSize),
      currentPlayer |-> 1,
      gameStatus    |-> "playing",
      winner        |-> 0,
      winLine       |-> <<>>,
      moveHistory   |-> <<>>,
      moveCount     |-> 0,
      startTime     |-> 0 ]

\* What a method without a return statement returns.
Undefined == "undefined"

\* setBoardSize(size): the return value and the object afterwards.
setBoardSize(g, size) ==
    [ret |-> Undefined,
     g |-> IF size = 15 \/ size = 19
           THEN [g EXCEPT !.boardSize = size, !.board = initializeBoard(size)]
           ELSE g]

\* reset()
reset(g) ==
    [g EXCEPT !.board = initializeBoard(g.boardSize),
              !.currentPlayer = 1,
              !.gameStatus = "playing",
              !.winner = 0,
              !.winLine = <<>>,
              !.moveHistory = <<>>,
              !.moveCount = 0,
              !.startTime = 0]

isValidPosition(g, row, col) ==
    row >= 0 /\ row < g.boardSize /\ col >= 0 /\ col < g.boardSize

getCell(g, row, col) ==
    IF isValidPosition(g, row, col) THEN g.board[row][col] ELSE -1

\* A mutant of isValidMove: the status of the game is not looked at.
isValidMoveAnyStatus(g, row, col) ==
    /\ isValidPosition(g, row, col)
    /\ g.board[row][col] = 0

isValidMove(g, row, col) ==
    /\ isValidPosition(g, row, col)
    /\ g.board[row][col] = 0
    /\ g.gameStatus = "playing"

\* The number of consecutive cells holding player's stone from (r, c) on,
\* stepping by (dr, dc): one of the two while loops of checkWin.
RECURSIVE runFrom(_, _, _, _, _, _)
runFrom(g, r, c, dr, dc, player) ==
    IF isValidPosition(g, r, c) /\ g.board[r][c] = player
    THEN 1 + runFrom(g, r + dr, c + dc, dr, dc, player)
    ELSE 0

\* A mutant of lineThrough: the run listed from its positive end.
lineThroughBackwards(g, row, col, dRow, dCol) ==
    LET player == g.board[row][col]
        pos == runFrom(g, row + dRow, col + dCol, dRow, dCol, player)
        neg == runFrom(g, row - dRow, col - dCol, -dRow, -dCol, player)
    IN  [i \in 1..(neg + 1 + pos) |->
            Cell(row + (pos + 1 - i) * dRow, col + (pos + 1 - i) * dCol)]

\* The array `line` of checkWin for one direction: the played cell, the cells
\* pushed behind it in the positive direction, the cells unshifted in front of
\* it in the negative direction.
lineThrough(g, row, col, dRow, dCol) ==
    LET player == g.board[row][col]
        pos == runFrom(g, row + dRow, col + dCol, dRow, dCol, player)
        neg == runFrom(g, row - dRow, col - dCol, -dRow, -dCol, player)
    IN  [i \in 1..(neg + 1 + pos) |->
            Cell(row + (i - 1 - neg) * dRow, col + (i - 1 - neg) * dCol)]

\* A mutant of slice5: the five cells are taken from the second on.
slice5FromSecond(line) == SubSeq(line, 2, Min(6, Len(line)))

\* A mutant of slice5: the whole run is kept.
slice5NoCut(line) == line

\* line.slice(0, 5)
slice5(line) == SubSeq(line, 1, Min(5, Len(line)))

\* A mutant of directions: the diagonal / is not looked at.
directionsNoAnti == << <<0, 1>>, <<1, 0>>, <<1, 1>> >>

directions == << <<0, 1>>, <<1, 0>>, <<1, 1>>, <<1, -1>> >>

\* A mutant of checkWinFrom: four in a row are enough.
RECURSIVE checkWinFromFour(_, _, _, _)
checkWinFromFour(g, row, col, d) ==
    IF d > Len(directions)
    THEN [win |-> FALSE, winLine |-> g.winLine]
    ELSE LET line == lineThrough(g, row, col, directions[d][1], directions[d][2])
         IN  IF Len(line) >= 4
             THEN [win |-> TRUE, winLine |-> slice5(line)]
             ELSE checkWinFromFour(g, row, col, d + 1)

\* checkWin(row, col) from the d-th direction on: the directions are tried in
\* order; the first with a run of 5 or more sets this.winLine and returns true.
RECURSIVE checkWinFrom(_, _, _, _)
checkWinFrom(g, row, col, d) ==
    IF d > Len(directions)
    THEN [win |-> FALSE, winLine |-> g.winLine]
    ELSE LET line == lineThrough(g, row, col, directions[d][1], directions[d][2])
         IN  IF Len(line) >= 5
             THEN [win |-> TRUE, winLine |-> slice5(line)]
             ELSE checkWinFrom(g, row, col, d + 1)

checkWin(g, row, col) == checkWinFrom(g, row, col, 1)

otherPlayer(p) == IF p = 1 THEN 2 ELSE 1

\* The first half of an accepted makeMove(row, col) at time t: the move is
\* recorded, the stone placed, the move counted, the clock started.
place(g, row, col, t) ==
    [g EXCEPT
       !.moveHistory = Append(@, [row |-> row, col |-> col,
                                  player |-> g.currentPlayer,
                                  timestamp |-> t]),
       !.board[row][col] = g.currentPlayer,
       !.moveCount = @ + 1,
       !.startTime = IF g.moveCount + 1 = 1 THEN t ELSE @]

\* A mutant of conclude: the full board is tested before the win.
concludeDrawFirst(g, row, col) ==
    LET w == checkWin(g, row, col)
    IN  IF g.moveCount = g.boardSize * g.boardSize
        THEN [g EXCEPT !.gameStatus = "draw"]
        ELSE IF w.win
        THEN [g EXCEPT !.winLine = w.winLine, !.gameStatus = "won",
                       !.winner = g.currentPlayer]
        ELSE [g EXCEPT !.currentPlayer = otherPlayer(@)]

\* A mutant of conclude: the win goes to the player who did not move.
concludeForOpponent(g, row, col) ==
    LET w == checkWin(g, row, col)
    IN  IF w.win
        THEN [g EXCEPT !.winLine = w.winLine, !.gameStatus = "won",
                       !.winner = otherPlayer(g.currentPlayer)]
        ELSE IF g.moveCount = g.boardSize * g.boardSize
        THEN [g EXCEPT !.gameStatus = "draw"]
        ELSE [g EXCEPT !.currentPlayer = otherPlayer(@)]

\* The second half of an accepted makeMove: win, else draw, else the turn
\* passes.
conclude(g, row, col) ==
    LET w == checkWin(g, row, col)
    IN  IF w.win
        THEN [g EXCEPT !.winLine = w.winLine, !.gameStatus = "won",
                       !.winner = g.currentPlayer]
        ELSE IF g.moveCount = g.boardSize * g.boardSize
        THEN [g EXCEPT !.gameStatus = "draw"]
        ELSE [g EXCEPT !.currentPlayer = otherPlayer(@)]

\* A mutant of makeMove: moves are accepted on a finished game.
makeMoveOnFinished(g, row, col, t) ==
    IF ~(isValidPosition(g, row, col) /\ g.board[row][col] = 0)
    THEN [ret |-> FALSE, g |-> g]
    ELSE [ret |-> TRUE, g |-> conclude(place(g, row, col, t), row, col)]

\* makeMove(row, col) at time t: the return value and the object afterwards.
makeMove(g, row, col, t) ==
    IF ~isValidMove(g, row, col)
    THEN [ret |-> FALSE, g |-> g]
    ELSE [ret |-> TRUE, g |-> conclude(place(g, row, col, t), row, col)]

\* A mutant of undoMove: the winning line of a finished game is kept.
undoMoveKeepsLine(g) ==
    IF Len(g.moveHistory) = 0
    THEN [ret |-> FALSE, g |-> g]
    ELSE
      LET lastMove == g.moveHistory[Len(g.moveHistory)]
          popped ==
            [g EXCEPT
               !.moveHistory = SubSeq(@, 1, Len(@) - 1),
               !.board[lastMove.row][lastMove.col] = 0,
               !.moveCount = @ - 1,
               !.currentPlayer = lastMove.player]
      IN  IF g.gameStatus # "playing"
          THEN [ret |-> TRUE,
                g |-> [popped EXCEPT !.gameStatus = "playing", !.winner = 0]]
          ELSE [ret |-> TRUE, g |-> popped]

\* A mutant of undoMove: the turn is not given back.
undoMoveKeepsTurn(g) ==
    IF Len(g.moveHistory) = 0
    THEN [ret |-> FALSE, g |-> g]
    ELSE
      LET lastMove == g.moveHistory[Len(g.moveHistory)]
          popped ==
            [g EXCEPT
               !.moveHistory = SubSeq(@, 1, Len(@) - 1),
               !.board[lastMove.row][lastMove.col] = 0,
               !.moveCount = @ - 1]
      IN  IF g.gameStatus # "playing"
          THEN [ret |-> TRUE,
                g |-> [popped EXCEPT !.gameStatus = "playing",
                                     !.winner = 0,
                                     !.winLine = <<>>]]
          ELSE [ret |-> TRUE, g |-> popped]

\* A mutant of undoMove: the stone stays on the board.
undoMoveKeepsStone(g) ==
    IF Len(g.moveHistory) = 0
    THEN [ret |-> FALSE, g |-> g]
    ELSE
      LET lastMove == g.moveHistory[Len(g.moveHistory)]
          popped ==
            [g EXCEPT
               !.moveHistory = SubSeq(@, 1, Len(@) - 1),
               !.moveCount = @ - 1,
               !.currentPlayer = lastMove.player]
      IN  IF g.gameStatus # "playing"
          THEN [ret |-> TRUE,
                g |-> [popped EXCEPT !.gameStatus = "playing",
                                     !.winner = 0,
                                     !.winLine = <<>>]]
          ELSE [ret |-> TRUE, g |-> popped]

\* undoMove(): the return value and the object afterwards.
undoMove(g) ==
    IF Len(g.moveHistory) = 0
    THEN [ret |-> FALSE, g |-> g]
    ELSE
      LET lastMove == g.moveHistory[Len(g.moveHistory)]
          popped ==
            [g EXCEPT
               !.moveHistory = SubSeq(@, 1, Len(@) - 1),
               !.board[lastMove.row][lastMove.col] = 0,
               !.moveCount = @ - 1,
               !.currentPlayer = lastMove.player]
      IN  IF g.gameStatus # "playing"
          THEN [ret |-> TRUE,
                g |-> [popped EXCEPT !.gameStatus = "playing",
                                     !.winner = 0,
                                     !.winLine = <<>>]]
          ELSE [ret |-> TRUE, g |-> popped]


\* The inner loop of getEmptyCells for one row, and the outer loop over rows.
RECURSIVE emptyInRow(_, _, _)
emptyInRow(g, row, col) ==
    IF col >= g.boardSize THEN <<>>
    ELSE IF g.board[row][col] = 0
         THEN <<Cell(row, col)>> \o emptyInRow(g, row, col + 1)
         ELSE emptyInRow(g, row, col + 1)

RECURSIVE emptyFromRow(_, _)
emptyFromRow(g, row) ==
    IF row >= g.boardSize THEN <<>>
    ELSE emptyInRow(g, row, 0) \o emptyFromRow(g, row + 1)

getEmptyCells(g) == emptyFromRow(g, 0)

\* The key `${r},${c}` of a cell in the Set relevantCells, and the cell that
\* pos.split(',').map(Number) reads back from it.
keyOf(r, c) == <<r, c>>
cellOfKey(key) == Cell(key[1], key[2])

inSeq(x, s) == \E i \in 1..Len(s) : s[i] = x

\* The keys of the rectangle r0..r1 x c0..c1 in the order of the two nested for
\* loops (rows outside, columns inside); empty when a range is empty.
rectangle(r0, r1, c0, c1) ==
    LET w == IF c1 >= c0 THEN c1 - c0 + 1 ELSE 0
        h == IF r1 >= r0 THEN r1 - r0 + 1 ELSE 0
    IN  [k \in 1..(h * w) |-> keyOf(r0 + ((k - 1) \div w), c0 + ((k - 1) % w))]

\* A Set keeps the first insertion of a key only: `acc` after the keys of
\* `more` are added to it in order.
addAll(acc, more) ==
    LET isNew(key) == ~inSeq(key, acc)
    IN  acc \o SelectSeq(more, isNew)

\* The keys of `keys` whose cell is empty: what the two inner for loops add.
emptyAmong(g, keys) ==
    LET isEmpty(key) == g.board[key[1]][key[2]] = 0
    IN  SelectSeq(keys, isEmpty)

\* The keys added while the outer loops visit the cells (row, 0..col).
RECURSIVE aroundOccupiedInRow(_, _, _, _)
aroundOccupiedInRow(g, radius, row, col) ==
    LET n == g.boardSize
    IN  IF col < 0 THEN <<>>
        ELSE IF g.board[row][col] # 0
        THEN addAll(aroundOccupiedInRow(g, radius, row, col - 1),
                    emptyAmong(g,
                        rectangle(Max(0, row - radius), Min(n - 1, row + radius),
                                  Max(0, col - radius), Min(n - 1, col + radius))))
        ELSE aroundOccupiedInRow(g, radius, row, col - 1)

\* The keys added while the outer loops visit the rows 0..row.
RECURSIVE aroundOccupied(_, _, _)
aroundOccupied(g, radius, row) ==
    IF row < 0 THEN <<>>
    ELSE addAll(aroundOccupied(g, radius, row - 1),
                aroundOccupiedInRow(g, radius, row, g.boardSize - 1))

\* The second loop nest: the cells around the centre that are on the board
\* and empty.
aroundCenter(g) ==
    LET center == g.boardSize \div 2
        isFree(key) == /\ isValidPosition(g, key[1], key[2])
                       /\ g.board[key[1]][key[2]] = 0
    IN  SelectSeq(rectangle(center - 1, center + 1, center - 1, center + 1), isFree)

\* getRelevantEmptyCells(radius): the cells in insertion order.
getRelevantEmptyCells(g, radius) ==
    LET found == aroundOccupied(g, radius, g.boardSize - 1)
        keys == IF Len(found) = 0 THEN aroundCenter(g) ELSE found
    IN  [i \in 1..Len(keys) |-> cellOfKey(keys[i])]

(***************************************************************************)
(* AIPlayer                                                                *)
(***************************************************************************)
\* -Infinity and Infinity are -Infinite and Infinite: no score reaches them.
Infinite == 100000000

\* this.settings; randomness in thousandths.
settings ==
    [ easy   |-> [depth |-> 2, randomness |-> 300],
      medium |-> [depth |-> 3, randomness |-> 100],
      hard   |-> [depth |-> 4, randomness |-> 50] ]

NewAIPlayer(difficulty) ==
    [ difficulty |-> difficulty, player |-> 2, opponent |-> 1 ]

currentSettings(ai) == settings[ai.difficulty]

\* One while loop of AIPlayer.checkWin.
RECURSIVE aiRunFrom(_, _, _, _, _, _, _)
aiRunFrom(board, boardSize, r, c, dr, dc, player) ==
    IF r >= 0 /\ r < boardSize /\ c >= 0 /\ c < boardSize /\ board[r][c] = player
    THEN 1 + aiRunFrom(board, boardSize, r + dr, c + dc, dr, dc, player)
    ELSE 0

\* A mutant of aiCheckWin: four in a row are enough.
aiCheckWinFour(board, boardSize, row, col, player) ==
    \E d \in 1..Len(directions) :
        LET dRow == directions[d][1]
            dCol == directions[d][2]
        IN  1 + aiRunFrom(board, boardSize, row + dRow, col + dCol, dRow, dCol, player)
              + aiRunFrom(board, boardSize, row - dRow, col - dCol, -dRow, -dCol, player)
              >= 4

\* AIPlayer.checkWin(board, boardSize, row, col, player)
aiCheckWin(board, boardSize, row, col, player) ==
    \E d \in 1..Len(directions) :
        LET dRow == directions[d][1]
            dCol == directions[d][2]
        IN  1 + aiRunFrom(board, boardSize, row + dRow, col + dCol, dRow, dCol, player)
              + aiRunFrom(board, boardSize, row - dRow, col - dCol, -dRow, -dCol, player)
              >= 5

\* One round of the for loop of evaluateLine, for the cell (r, c): what it adds
\* to count, in units, and to blocks, in tens.
lineTally(board, boardSize, r, c, player) ==
    IF r < 0 \/ r >= boardSize \/ c < 0 \/ c >= boardSize THEN 10
    ELSE IF board[r][c] = player THEN 1
    ELSE IF board[r][c] = 0 THEN 0
    ELSE 10

\* The five rounds of the for loop of evaluateLine.
lineTallies(board, boardSize, row, col, dRow, dCol, player) ==
    lineTally(board, boardSize, row, col, player)
    + lineTally(board, boardSize, row + dRow, col + dCol, player)
    + lineTally(board, boardSize, row + 2 * dRow, col + 2 * dCol, player)
    + lineTally(board, boardSize, row + 3 * dRow, col + 3 * dCol, player)
    + lineTally(board, boardSize, row + 4 * dRow, col + 4 * dCol, player)

\* evaluateLine with blocks > 2 for blocks >= 2.
evaluateLineThreeBlocks(board, boardSize, row, col, dRow, dCol, player) ==
    LET t == lineTallies(board, boardSize, row, col, dRow, dCol, player)
        count == t % 10
        blocks == t \div 10
    IN  IF blocks > 2 THEN 0
        ELSE CASE count = 5 -> 10000
               [] count = 4 -> IF blocks = 0 THEN 5000 ELSE 1000
               [] count = 3 -> IF blocks = 0 THEN 500 ELSE 100
               [] count = 2 -> IF blocks = 0 THEN 50 ELSE 10
               [] count = 1 -> IF blocks = 0 THEN 5 ELSE 1
               [] OTHER -> 0

\* evaluateLine(board, boardSize, row, col, dRow, dCol, player)
evaluateLine(board, boardSize, row, col, dRow, dCol, player) ==
    LET t == lineTallies(board, boardSize, row, col, dRow, dCol, player)
        count == t % 10
        blocks == t \div 10
    IN  IF blocks >= 2 THEN 0
        ELSE CASE count = 5 -> 10000
               [] count = 4 -> IF blocks = 0 THEN 5000 ELSE 1000
               [] count = 3 -> IF blocks = 0 THEN 500 ELSE 100
               [] count = 2 -> IF blocks = 0 THEN 50 ELSE 10
               [] count = 1 -> IF blocks = 0 THEN 5 ELSE 1
               [] OTHER -> 0

\* The loops of evaluateAllLines: the four directions at one cell, the columns
\* of a row from col on, the rows from row on.
linesAt(board, boardSize, row, col, player) ==
    evaluateLine(board, boardSize, row, col, 0, 1, player)
    + evaluateLine(board, boardSize, row, col, 1, 0, player)
    + evaluateLine(board, boardSize, row, col, 1, 1, player)
    + evaluateLine(board, boardSize, row, col, 1, -1, player)

RECURSIVE linesInRow(_, _, _, _, _)
linesInRow(board, boardSize, row, col, player) ==
    IF col >= boardSize THEN 0
    ELSE linesAt(board, boardSize, row, col, player)
         + linesInRow(board, boardSize, row, col + 1, player)

RECURSIVE linesFromRow(_, _, _, _)
linesFromRow(board, boardSize, row, player) ==
    IF row >= boardSize THEN 0
    ELSE linesInRow(board, boardSize, row, 0, player)
         + linesFromRow(board, boardSize, row + 1, player)

evaluateAllLines(board, boardSize, player) == linesFromRow(board, boardSize, 0, player)

\* A mutant of evaluatePosition: the opponent's lines are not subtracted.
evaluatePositionOwnLines(ai, g) ==
    IF g.gameStatus = "won"
    THEN (IF g.winner = ai.player THEN 10000 ELSE -10000)
    ELSE IF g.gameStatus = "draw" THEN 0
    ELSE evaluateAllLines(g.board, g.boardSize, ai.player)

\* evaluatePosition(gameModel)
evaluatePosition(ai, g) ==
    IF g.gameStatus = "won"
    THEN (IF g.winner = ai.player THEN 10000 ELSE -10000)
    ELSE IF g.gameStatus = "draw" THEN 0
    ELSE evaluateAllLines(g.board, g.boardSize, ai.player)
         - evaluateAllLines(g.board, g.boardSize, ai.opponent)

\* null, where a move is expected
NoMove == [row |-> -1, col |-> -1]

\* findWinningMove(board, boardSize, player) on the columns of one row from col
\* on: the move found and the board afterwards.  A stone is put on each empty
\* cell in turn and taken off again.
RECURSIVE winningInRow(_, _, _, _, _)
winningInRow(board, boardSize, player, row, col) ==
    IF col >= boardSize THEN [move |-> NoMove, board |-> board]
    ELSE IF board[row][col] = 0
    THEN LET tried == [board EXCEPT ![row][col] = player]
             cleared == [tried EXCEPT ![row][col] = 0]
         IN  IF aiCheckWin(tried, boardSize, row, col, player)
             THEN [move |-> Cell(row, col), board |-> cleared]
             ELSE winningInRow(cleared, boardSize, player, row, col + 1)
    ELSE winningInRow(board, boardSize, player, row, col + 1)

RECURSIVE winningFromRow(_, _, _, _)
winningFromRow(board, boardSize, player, row) ==
    IF row >= boardSize THEN [move |-> NoMove, board |-> board]
    ELSE LET r == winningInRow(board, boardSize, player, row, 0)
         IN  IF r.move # NoMove THEN r
             ELSE winningFromRow(r.board, boardSize, player, row + 1)

findWinningMove(board, boardSize, player) == winningFromRow(board, boardSize, player, 0)

\* The readings of Math.random(), in thousandths, that the runs draw.
RandomDraws == {0, 999}

\* addRandomness(bestMove, alternativeMoves) when the two calls of
\* Math.random() return draw/1000 and a number that selects index pick.
\* array[index] of JavaScript, undefined being NoMove.
at(array, index) ==
    IF index >= 0 /\ index < Len(array) THEN array[index + 1] ELSE NoMove

\* The indexes Math.floor(Math.random() * Math.min(3, length)) can be.
picksCeil(alternativeMoves) == 0..Min(3, Len(alternativeMoves))

picks(alternativeMoves) == 0..Max(0, Min(3, Len(alternativeMoves)) - 1)

addRandomness(ai, bestMove, alternativeMoves, draw, pick) ==
    IF draw < currentSettings(ai).randomness /\ Len(alternativeMoves) > 1
    THEN at(alternativeMoves, pick)
    ELSE bestMove

\* The moves getRandomCenterMove(gameModel) can return; undefined is NoMove.
getRandomCenterMove(g) ==
    LET center == g.boardSize \div 2
        radius == 3
        lo == Max(0, center - radius)
        hi == Min(g.boardSize - 1, center + radius)
        moves == {cell \in {Cell(row, col) : row \in lo..hi, col \in lo..hi} :
                    getCell(g, cell.row, cell.col) = 0}
        emptyCells == getEmptyCells(g)
    IN  IF moves = {} /\ Len(emptyCells) > 0
        THEN {emptyCells[i] : i \in 1..Len(emptyCells)}
        ELSE IF moves = {} THEN {NoMove}
        ELSE moves

(***************************************************************************)
(* Positions the runs start from.  Each is given by the moves that lead to *)
(* it from a new game and is built by replaying them through makeMove, the *)
(* i-th move at time i.                                                    *)
(***************************************************************************)
\* The moves lo..hi, first half before second half; nothing is played on a
\* finished game.
RECURSIVE replayRange(_, _, _, _)
replayRange(g, moves, lo, hi) ==
    IF lo > hi THEN g
    ELSE IF lo = hi THEN makeMove(g, moves[lo][1], moves[lo][2], lo).g
    ELSE LET mid == (lo + hi) \div 2
             half == replayRange(g, moves, lo, mid)
         IN  IF half.gameStatus # "playing" THEN half
             ELSE replayRange(half, moves, mid + 1, hi)

replay(moves) == replayRange(NewGameModel, moves, 1, Len(moves))

\* A full 15x15 board without five in a row: stones in pairs along the rows,
\* each row shifted by two against the one above, and four stones changed.
\* Row 7 reads OOXXOXXXXOXXOOX: without the stones at (7,4) and (7,8) black has
\* (7,2) (7,3) and (7,5) (7,6) (7,7).
fullBoardColour(r, c) ==
    IF <<r, c>> \in { <<7, 5>>, <<7, 8>> } THEN 1
    ELSE IF <<r, c>> \in { <<0, 0>>, <<14, 0>> } THEN 2
    ELSE IF (c + 2 * r) % 4 \in {0, 1} THEN 1 ELSE 2

\* The cells of the full board holding player's stone, row by row, without the
\* cells in `holes`.
RECURSIVE stonesInRow(_, _, _, _)
stonesInRow(player, holes, row, col) ==
    IF col >= DefaultBoardSize THEN <<>>
    ELSE IF fullBoardColour(row, col) = player /\ <<row, col>> \notin holes
         THEN << <<row, col>> >> \o stonesInRow(player, holes, row, col + 1)
         ELSE stonesInRow(player, holes, row, col + 1)

RECURSIVE stonesFromRow(_, _, _)
stonesFromRow(player, holes, row) ==
    IF row >= DefaultBoardSize THEN <<>>
    ELSE stonesInRow(player, holes, row, 0) \o stonesFromRow(player, holes, row + 1)

stonesOf(player, holes) == stonesFromRow(player, holes, 0)

\* Black and white stones of the full board placed in turn, leaving `holes`.
nearlyFull(holes) ==
    LET a == stonesOf(1, holes)
        b == stonesOf(2, holes)
    IN  [i \in 1..(Len(a) + Len(b)) |->
            IF i % 2 = 1 THEN a[(i + 1) \div 2] ELSE b[i \div 2]]

cellsOf(pairs) == {Cell(p[1], p[2]) : p \in pairs}

\* Two columns of three: black (7,7) (8,7) (9,7), white (7,8) (8,8) (9,8).
ColumnsMoves == << <<7, 7>>, <<7, 8>>, <<8, 7>>, <<8, 8>>, <<9, 7>>, <<9, 8>> >>

\* The first seven moves of the scenario of black's column: four in a row.
FourMoves == ColumnsMoves \o << <<10, 7>> >>

\* Black on row 3 with a gap at (3,3), white scattered on row 12.
GapMoves ==
    << <<3, 0>>, <<12, 0>>, <<3, 1>>, <<12, 2>>, <<3, 2>>, <<12, 4>>,
       <<3, 4>>, <<12, 6>>, <<3, 5>>, <<12, 8>> >>

\* Black on the main diagonal from the corner (0,0), white on the
\* anti-diagonal from the corner (0,14), four stones each.
DiagonalMoves ==
    << <<0, 0>>, <<0, 14>>, <<1, 1>>, <<1, 13>>, <<2, 2>>, <<2, 12>>,
       <<3, 3>>, <<3, 11>> >>

FullHoles == { <<7, 4>>, <<7, 8>> }

Scenarios ==
    { [start |-> replay(<<>>),
       inputs |-> cellsOf({ <<7, 7>>, <<7, 8>>, <<0, 0>>, <<-1, 3>>, <<14, 15>> })],
      [start |-> replay(ColumnsMoves),
       inputs |-> cellsOf({ <<10, 7>>, <<10, 8>>, <<11, 7>>, <<6, 7>>, <<9, 8>> })],
      [start |-> replay(GapMoves),
       inputs |-> cellsOf({ <<3, 3>>, <<3, 6>>, <<12, 10>>, <<3, 0>> })],
      [start |-> replay(DiagonalMoves),
       inputs |-> cellsOf({ <<4, 4>>, <<4, 10>>, <<5, 5>>, <<8, 2>>, <<15, 15>> })],
      [start |-> replay(nearlyFull(FullHoles)),
       inputs |-> cellsOf(FullHoles \cup { <<7, 5>> })] }

(***************************************************************************)
(* The rules engine driven by a caller: makeMove and undoMove in any order *)
(***************************************************************************)
NoCall == [op |-> "none", args |-> <<>>, ret |-> FALSE, before |-> NewGameModel]

\* No method of the computer player has been called yet: nothing was returned.
NothingReturned == [op |-> "none", args |-> <<>>, before |-> NewGameModel]

\* No call into AIPlayer has been made.
NoRequest ==
    [name |-> "none", entry |-> NewGameModel, player |-> 2, opponent |-> 1,
     searched |-> FALSE, score |-> 0, threat |-> NoMove, counterThreat |-> NoMove]

NoResult ==
    [score |-> 0, move |-> NoMove, entry |-> NewGameModel, cut |-> FALSE]

\* AIPlayer at rest, and no GameController driving it.
Idle(difficulty) ==
    /\ gameController = [isGameRunning |-> FALSE, isAIThinking |-> FALSE]
    /\ gameMode = "human"
    /\ tasks = [timers |-> 0, awaiting |-> 0]
    /\ aiPlayer = NewAIPlayer(difficulty)
    /\ pc = "idle"
    /\ call = NoRequest
    /\ stack = <<>>
    /\ retval = NoResult

Init ==
    /\ \E s \in Scenarios :
          /\ gameModel = s.start
          /\ inputs = s.inputs
          /\ now = Len(s.start.moveHistory) + 1
    /\ ops = 0
    /\ last = NoCall
    /\ prev = NoCall
    /\ Idle("medium")

MakeMove ==
    /\ ops < MaxOps
    /\ \E cell \in inputs :
         LET r == makeMove(gameModel, cell.row, cell.col, now)
         IN  /\ gameModel' = r.g
             /\ last' = [op |-> "makeMove", args |-> cell, ret |-> r.ret,
                         before |-> gameModel]
    /\ prev' = last
    /\ ops' = ops + 1
    /\ UNCHANGED <<now, inputs>>
    /\ UNCHANGED searchVars
    /\ UNCHANGED controlVars

UndoMove ==
    /\ ops < MaxOps
    /\ LET r == undoMove(gameModel)
       IN  /\ gameModel' = r.g
           /\ last' = [op |-> "undoMove", args |-> <<>>, ret |-> r.ret,
                       before |-> gameModel]
    /\ prev' = last
    /\ ops' = ops + 1
    /\ UNCHANGED <<now, inputs>>
    /\ UNCHANGED searchVars
    /\ UNCHANGED controlVars

Next == MakeMove \/ UndoMove

Spec == Init /\ [][Next]_vars

(***************************************************************************)
(* AIPlayer called on a position.  A call runs in steps: its beginning up  *)
(* to the first activation of minimax, the activations of minimax one at a  *)
(* time, and its end.  gameModel is the object the caller passed, played on *)
(* and taken back by the search.                                           *)
(***************************************************************************)
MaxCalls == 1

\* An activation of minimax(gameModel, depth, maximizing, alpha, beta) that
\* has not run yet; entry is the game it was called on, and cut records that
\* this activation or one under it left its loop by break with moves untried.
frame(depth, maximizing, alpha, beta, g) ==
    [depth |-> depth, maximizing |-> maximizing, alpha |-> alpha, beta |-> beta,
     relevantMoves |-> <<>>, i |-> 0, best |-> 0, bestMove |-> NoMove,
     originalPlayer |-> 0, pruned |-> FALSE, entry |-> g, cut |-> FALSE]

\* getBestMove before the search, block before win.
getBestMoveStartBlockFirst(ai, g) ==
    LET winMove == findWinningMove(g.board, g.boardSize, ai.player).move
        blockMove == findWinningMove(g.board, g.boardSize, ai.opponent).move
    IN  IF blockMove # NoMove THEN [pc |-> "found", move |-> blockMove]
        ELSE IF winMove # NoMove THEN [pc |-> "found", move |-> winMove]
        ELSE [pc |-> "call", move |-> NoMove]

\* getBestMove before the search, without the scan for the opponent.
getBestMoveStartNoBlock(ai, g) ==
    LET winMove == findWinningMove(g.board, g.boardSize, ai.player).move
    IN  IF winMove # NoMove THEN [pc |-> "found", move |-> winMove]
        ELSE [pc |-> "call", move |-> NoMove]

\* getBestMove before the search, on a copy of the board: the winning move or
\* the blocking move if there is one, otherwise minimax is to be called.
getBestMoveStart(ai, g) ==
    LET winMove == findWinningMove(g.board, g.boardSize, ai.player).move
        blockMove == findWinningMove(g.board, g.boardSize, ai.opponent).move
    IN  IF winMove # NoMove THEN [pc |-> "found", move |-> winMove]
        ELSE IF blockMove # NoMove THEN [pc |-> "found", move |-> blockMove]
        ELSE [pc |-> "call", move |-> NoMove]

\* A mutant of getBestMoveEnd: the alternatives are all the empty cells.
getBestMoveEndAllCells(ai, g, found, move, draw) ==
    IF found THEN { addRandomness(ai, move, <<move>>, draw, 0) }
    ELSE IF move # NoMove
    THEN LET relevantMoves == getEmptyCells(g)
         IN  { addRandomness(ai, move, relevantMoves, draw, pick) :
                 pick \in picks(relevantMoves) }
    ELSE getRandomCenterMove(g)

\* The moves getBestMove can return when Math.random() reads draw: found says
\* that move is a winning or blocking move, otherwise it is what minimax
\* returned.
getBestMoveEnd(ai, g, found, move, draw) ==
    IF found THEN { addRandomness(ai, move, <<move>>, draw, 0) }
    ELSE IF move # NoMove
    THEN LET relevantMoves == getRelevantEmptyCells(g, 2)
         IN  { addRandomness(ai, move, relevantMoves, draw, pick) :
                 pick \in picks(relevantMoves) }
    ELSE getRandomCenterMove(g)

\* undoMove() without gameModel.currentPlayer = originalPlayer.
takeBackKeepsPlayer(g, originalPlayer) == undoMove(g).g

\* gameModel.undoMove(); gameModel.currentPlayer = originalPlayer
takeBack(g, originalPlayer) ==
    [undoMove(g).g EXCEPT !.currentPlayer = originalPlayer]

\* A mutant of analysis: the scores 100 and -100 are not 'equal'.
analysisFromHundred(score, threat, counterThreat, recommendation) ==
    [score |-> score,
     evaluation |-> IF score >= 100 THEN "advantage"
                    ELSE IF score <= -100 THEN "disadvantage" ELSE "equal",
     immediateWin |-> threat # NoMove,
     needsDefense |-> counterThreat # NoMove,
     recommendation |-> recommendation]

\* The object analyzePosition returns.
analysis(score, threat, counterThreat, recommendation) ==
    [score |-> score,
     evaluation |-> IF score > 100 THEN "advantage"
                    ELSE IF score < -100 THEN "disadvantage" ELSE "equal",
     immediateWin |-> threat # NoMove,
     needsDefense |-> counterThreat # NoMove,
     recommendation |-> recommendation]

\* this.getBestMove(gameModel) begins, with ai for this, inside the call `name`.
Enter(name, ai, score, threat, counterThreat) ==
    LET start == getBestMoveStart(ai, gameModel)
    IN  /\ aiPlayer' = ai
        /\ call' = [name |-> name, entry |-> gameModel,
                    player |-> aiPlayer.player, opponent |-> aiPlayer.opponent,
                    searched |-> start.pc = "call", score |-> score,
                    threat |-> threat, counterThreat |-> counterThreat]
        /\ pc' = start.pc
        /\ retval' = [score |-> 0, move |-> start.move, entry |-> gameModel,
                      cut |-> FALSE]
        /\ stack' = IF start.pc = "call"
                    THEN << frame(currentSettings(ai).depth, TRUE, -Infinite,
                                  Infinite, gameModel) >>
                    ELSE <<>>
        /\ ops' = ops + 1
        /\ UNCHANGED <<gameModel, now, inputs, last, prev>>
        /\ UNCHANGED controlVars

GetBestMove ==
    /\ pc = "idle" /\ ops < MaxCalls /\ "getBestMove" \in inputs
    /\ Enter("getBestMove", aiPlayer, 0, NoMove, NoMove)

\* A mutant of getHintBegin: player and opponent stay as they are.
getHintBeginAsEngine(ai, g) == ai

\* getHint before its call of getBestMove: this.player and this.opponent set
\* from gameModel.currentPlayer.
getHintBegin(ai, g) ==
    [ai EXCEPT !.player = g.currentPlayer,
               !.opponent = IF g.currentPlayer = 1 THEN 2 ELSE 1]

GetHint ==
    /\ pc = "idle" /\ ops < MaxCalls /\ "getHint" \in inputs
    /\ Enter("getHint", getHintBegin(aiPlayer, gameModel), 0, NoMove, NoMove)

AnalyzePosition ==
    /\ pc = "idle" /\ ops < MaxCalls /\ "analyzePosition" \in inputs
    /\ LET score == evaluatePosition(aiPlayer, gameModel)
           threat == findWinningMove(gameModel.board, gameModel.boardSize,
                                     gameModel.currentPlayer)
           counterThreat ==
               findWinningMove(threat.board, gameModel.boardSize,
                               IF gameModel.currentPlayer = 1 THEN 2 ELSE 1)
       IN  IF threat.move # NoMove \/ counterThreat.move # NoMove
           THEN /\ gameModel' = [gameModel EXCEPT !.board = counterThreat.board]
                /\ call' = [name |-> "analyzePosition", entry |-> gameModel,
                            player |-> aiPlayer.player,
                            opponent |-> aiPlayer.opponent,
                            searched |-> FALSE, score |-> score,
                            threat |-> threat.move,
                            counterThreat |-> counterThreat.move]
                /\ pc' = "found"
                /\ retval' = [score |-> 0, move |-> NoMove, entry |-> gameModel,
                              cut |-> FALSE]
                /\ stack' = <<>>
                /\ ops' = ops + 1
                /\ UNCHANGED <<aiPlayer, now, inputs, last, prev>>
                /\ UNCHANGED controlVars
           ELSE Enter("analyzePosition", aiPlayer, score, threat.move,
                      counterThreat.move)

\* A mutant of trialMove: the moves are taken from the end of the list.
trialMoveBackwards(top) == top.relevantMoves[Len(top.relevantMoves) + 1 - top.i]

\* {row, col} of the for loop over relevantMoves in its pass number i.
trialMove(top) == top.relevantMoves[top.i]

\* A mutant of improves: a move that ties with the best replaces it.
improvesOrTies(maximizing, score, best) ==
    IF maximizing THEN score >= best ELSE score <= best

\* result.score > maxScore, result.score < minScore
improves(maximizing, score, best) ==
    IF maximizing THEN score > best ELSE score < best

\* A mutant of searchEnds: a finished game is searched on.
searchEndsAtDepthOnly(depth, g) == depth = 0

\* depth === 0 || gameModel.gameStatus !== 'playing'
searchEnds(depth, g) == depth = 0 \/ g.gameStatus # "playing"

\* The innermost activation of minimax begins: it returns the evaluation at
\* depth 0 or on a finished game, otherwise it collects the moves to try.
MinimaxEnter ==
    /\ pc = "call"
    /\ LET n == Len(stack)
           top == stack[n]
       IN  IF searchEnds(top.depth, gameModel)
           THEN /\ retval' = [score |-> evaluatePosition(aiPlayer, gameModel),
                              move |-> NoMove, entry |-> top.entry,
                              cut |-> FALSE]
                /\ stack' = SubSeq(stack, 1, n - 1)
                /\ pc' = "ret"
           ELSE /\ stack' = [stack EXCEPT ![n] =
                               [top EXCEPT
                                  !.relevantMoves = getRelevantEmptyCells(gameModel, 2),
                                  !.i = 1,
                                  !.best = IF top.maximizing THEN -Infinite
                                           ELSE Infinite]]
                /\ pc' = "loop"
                /\ retval' = retval
    /\ UNCHANGED <<gameModel, aiPlayer, call, now, inputs, ops, last, prev>>
    /\ UNCHANGED controlVars

\* The for loop of the innermost activation: it tries its next move and calls
\* minimax on the result, or it returns when the moves are used up or the
\* loop was left by break.
MinimaxLoop ==
    /\ pc = "loop"
    /\ LET n == Len(stack)
           top == stack[n]
       IN  IF top.pruned \/ top.i > Len(top.relevantMoves)
           THEN /\ retval' = [score |-> top.best, move |-> top.bestMove,
                              entry |-> top.entry, cut |-> top.cut]
                /\ stack' = SubSeq(stack, 1, n - 1)
                /\ pc' = "ret"
                /\ gameModel' = gameModel
           ELSE LET move == trialMove(top)
                    mover == IF top.maximizing THEN aiPlayer.player
                             ELSE aiPlayer.opponent
                    played == makeMove([gameModel EXCEPT !.currentPlayer = mover],
                                       move.row, move.col, now).g
                IN  /\ gameModel' = played
                    /\ stack' = Append(
                          [stack EXCEPT ![n].originalPlayer = gameModel.currentPlayer],
                          frame(top.depth - 1, ~top.maximizing, top.alpha,
                                top.beta, played))
                    /\ pc' = "call"
                    /\ retval' = retval
    /\ UNCHANGED <<aiPlayer, call, now, inputs, ops, last, prev>>
    /\ UNCHANGED controlVars

\* The recursive call of the innermost activation has returned: the move is
\* taken back and the result is compared.
MinimaxResume ==
    /\ pc = "ret" /\ stack # <<>>
    /\ LET n == Len(stack)
           top == stack[n]
           move == trialMove(top)
           better == improves(top.maximizing, retval.score, top.best)
           alpha == IF top.maximizing THEN Max(top.alpha, retval.score)
                    ELSE top.alpha
           beta == IF top.maximizing THEN top.beta
                   ELSE Min(top.beta, retval.score)
       IN  /\ gameModel' = takeBack(gameModel, top.originalPlayer)
           /\ stack' = [stack EXCEPT ![n] =
                          [top EXCEPT
                             !.best = IF better THEN retval.score ELSE @,
                             !.bestMove = IF better THEN Cell(move.row, move.col)
                                          ELSE @,
                             !.alpha = alpha,
                             !.beta = beta,
                             !.pruned = beta <= alpha,
                             !.cut = \/ @
                                     \/ retval.cut
                                     \/ /\ beta <= alpha
                                        /\ top.i < Len(top.relevantMoves),
                             !.i = @ + 1]]
    /\ pc' = "loop"
    /\ UNCHANGED <<aiPlayer, call, retval, now, inputs, ops, last, prev>>
    /\ UNCHANGED controlVars

\* The call into AIPlayer returns.
Return ==
    /\ pc = "found" \/ (pc = "ret" /\ stack = <<>>)
    /\ \E draw \in RandomDraws :
         \E move \in IF call.name = "analyzePosition" /\ call.threat # NoMove
                     THEN { call.threat }
                     ELSE IF call.name = "analyzePosition"
                             /\ call.counterThreat # NoMove
                     THEN { call.counterThreat }
                     ELSE getBestMoveEnd(aiPlayer, gameModel, pc = "found",
                                         retval.move, draw) :
            last' = [op |-> call.name, args |-> <<>>,
                     ret |-> IF call.name = "analyzePosition"
                             THEN analysis(call.score, call.threat,
                                           call.counterThreat, move)
                             ELSE move,
                     before |-> call.entry]
    /\ prev' = last
    /\ aiPlayer' = IF call.name = "getHint"
                   THEN [aiPlayer EXCEPT !.player = call.player,
                                         !.opponent = call.opponent]
                   ELSE aiPlayer
    /\ pc' = "idle"
    /\ UNCHANGED <<gameModel, call, stack, retval, now, inputs, ops>>
    /\ UNCHANGED controlVars

\* explainMove(move, gameModel); the texts are named "none" ('Нет доступных
\* ходов'), "win" ('Выигрышный ход!'), "block" ('Блокировка угрозы
\* противника'), "threat" ('Создание сильной угрозы'), "attack" ('Развитие
\* атаки'), "improvement" ('Улучшение позиции') and "strategic"
\* ('Стратегический ход').
explainMove(ai, move, g) ==
    IF move = NoMove THEN "none"
    ELSE
      LET own == [g.board EXCEPT ![move.row][move.col] = ai.player]
          theirs == [g.board EXCEPT ![move.row][move.col] = ai.opponent]
          score == linesAt(own, g.boardSize, move.row, move.col, ai.player)
      IN  IF aiCheckWin(own, g.boardSize, move.row, move.col, ai.player)
          THEN "win"
          ELSE IF aiCheckWin(theirs, g.boardSize, move.row, move.col, ai.opponent)
          THEN "block"
          ELSE IF score > 1000 THEN "threat"
          ELSE IF score > 100 THEN "attack"
          ELSE IF score > 10 THEN "improvement"
          ELSE "strategic"

\* showHint() after getHint has returned a move to it: the explanation that
\* is shown with the hint.
ExplainMove ==
    /\ pc = "idle" /\ last.op = "getHint" /\ last.ret # NoMove
    /\ last' = [op |-> "explainMove", args |-> last.ret,
                ret |-> explainMove(aiPlayer, last.ret, gameModel),
                before |-> gameModel, player |-> aiPlayer.player]
    /\ prev' = last
    /\ ops' = ops + 1
    /\ UNCHANGED <<gameModel, now, inputs>>
    /\ UNCHANGED searchVars
    /\ UNCHANGED controlVars

\* A full board without the cells of SearchHoles4 has white to move, one
\* without the cells of SearchHoles3 black; on neither can a single stone
\* complete five, on both two stones of either colour can.
SearchHoles4 == { <<5, 11>>, <<6, 12>>, <<7, 12>>, <<8, 11>> }

SearchHoles3 == { <<8, 8>>, <<9, 7>>, <<9, 8>> }

\* Black in the corner, white to move.
CornerMoves == << <<0, 0>> >>

\* Both columns of four: either side completes five with its next stone.
BothFourMoves == ColumnsMoves \o << <<10, 7>>, <<10, 8>> >>

\* White's column of four open at both ends, black scattered on row 0.
OpenFourMoves ==
    << <<0, 0>>, <<7, 8>>, <<0, 2>>, <<8, 8>>, <<0, 4>>, <<9, 8>>,
       <<0, 6>>, <<10, 8>>, <<0, 8>> >>

\* A row of four each, black's on row 5 and white's on row 9, and stones in
\* the corner that bring evaluatePosition for player 2 to exactly -100 (white
\* to move) and to exactly 100 (black to move).
MinusHundredMoves ==
    << <<0, 1>>, <<2, 0>>, <<0, 2>>, <<9, 6>>, <<5, 6>>, <<9, 7>>, <<5, 7>>,
       <<9, 8>>, <<5, 8>>, <<9, 9>>, <<5, 9>> >>

PlusHundredMoves ==
    << <<0, 1>>, <<1, 1>>, <<2, 1>>, <<2, 2>>, <<5, 6>>, <<9, 6>>, <<5, 7>>,
       <<9, 7>>, <<5, 8>>, <<9, 8>>, <<5, 9>>, <<9, 9>> >>

Tiers == {"easy", "medium", "hard"}

Calls == {"getBestMove", "getHint", "analyzePosition"}

SearchScenarios ==
    { [start |-> replay(nearlyFull(SearchHoles4)), tiers |-> Tiers, calls |-> Calls],
      [start |-> replay(nearlyFull(SearchHoles3)), tiers |-> Tiers, calls |-> Calls],
      [start |-> replay(CornerMoves), tiers |-> {"easy"}, calls |-> {"getBestMove"}],
      [start |-> replay(<<>>), tiers |-> {"easy"},
       calls |-> {"getBestMove", "getHint"}],
      [start |-> replay(FourMoves), tiers |-> Tiers, calls |-> Calls],
      [start |-> replay(BothFourMoves), tiers |-> Tiers, calls |-> Calls],
      [start |-> replay(OpenFourMoves), tiers |-> Tiers, calls |-> Calls],
      [start |-> replay(MinusHundredMoves), tiers |-> {"easy"},
       calls |-> {"analyzePosition"}],
      [start |-> replay(PlusHundredMoves), tiers |-> {"easy"},
       calls |-> {"analyzePosition"}] }

InitAI ==
    /\ \E s \in SearchScenarios :
          /\ gameModel = s.start
          /\ inputs = s.calls
          /\ now = Len(s.start.moveHistory) + 1
          /\ \E difficulty \in s.tiers : Idle(difficulty)
    /\ ops = 0
    /\ last = NothingReturned
    /\ prev = NothingReturned

NextAI ==
    \/ GetBestMove
    \/ GetHint
    \/ AnalyzePosition
    \/ MinimaxEnter
    \/ MinimaxLoop
    \/ MinimaxResume
    \/ Return
    \/ ExplainMove

SpecAI == InitAI /\ [][NextAI]_vars

\* The steps of MinimaxEnter, MinimaxLoop and MinimaxResume, told by where
\* control goes.
minimaxRuns ==
    \/ pc = "call" /\ pc' \in {"ret", "loop"}
    \/ pc = "loop" /\ pc' \in {"ret", "call"}
    \/ pc = "ret" /\ stack # <<>> /\ pc' = "loop"

\* The steps of Return, told by where control goes: the call into AIPlayer
\* goes back to its caller.
callReturns ==
    /\ pc = "found" \/ (pc = "ret" /\ stack = <<>>)
    /\ pc' = "idle"

\* JavaScript runs a call to its end: the search takes its next step and the
\* call returns.
FairAI == WF_pc(minimaxRuns) /\ WF_pc(callReturns)

SpecAIFair == SpecAI /\ FairAI

(***************************************************************************)
(* evaluateLine applied to one window of five cells                        *)
(***************************************************************************)
\* Where the windows start: inside the board, and so that one or several of
\* the five cells are off the board in some direction.
LineAnchors == { <<5, 5>>, <<0, 11>>, <<12, 0>>, <<-1, 3>>, <<13, 13>> }

\* What the five cells of a window hold, where they are on the board.
Patterns == [0..4 -> {0, 1, 2}]

\* An empty board with `pattern` on the window's cells from the i-th on.
RECURSIVE windowBoard(_, _, _, _, _, _, _)
windowBoard(board, row, col, dRow, dCol, pattern, i) ==
    IF i >= 5 THEN board
    ELSE LET r == row + i * dRow
             c == col + i * dCol
         IN  IF r >= 0 /\ r < DefaultBoardSize /\ c >= 0 /\ c < DefaultBoardSize
             THEN windowBoard([board EXCEPT ![r][c] = pattern[i]],
                              row, col, dRow, dCol, pattern, i + 1)
             ELSE windowBoard(board, row, col, dRow, dCol, pattern, i + 1)

InitLine ==
    /\ \E a \in LineAnchors, d \in 1..4, pattern \in Patterns, player \in {1, 2} :
          inputs = [board |-> windowBoard(initializeBoard(DefaultBoardSize),
                                          a[1], a[2], directions[d][1],
                                          directions[d][2], pattern, 0),
                    boardSize |-> DefaultBoardSize,
                    row |-> a[1], col |-> a[2],
                    dRow |-> directions[d][1], dCol |-> directions[d][2],
                    player |-> player]
    /\ gameModel = NewGameModel
    /\ now = 1
    /\ ops = 0
    /\ last = NoCall
    /\ prev = NoCall
    /\ Idle("medium")

EvaluateLine ==
    /\ ops < MaxCalls
    /\ last' = [op |-> "evaluateLine", args |-> inputs,
                ret |-> evaluateLine(inputs.board, inputs.boardSize, inputs.row,
                                     inputs.col, inputs.dRow, inputs.dCol,
                                     inputs.player),
                before |-> gameModel]
    /\ prev' = last
    /\ ops' = ops + 1
    /\ UNCHANGED <<gameModel, now, inputs>>
    /\ UNCHANGED searchVars
    /\ UNCHANGED controlVars

NextLine == EvaluateLine

SpecLine == InitLine /\ [][NextLine]_vars

(***************************************************************************)
(* getRelevantEmptyCells applied to a position                             *)
(***************************************************************************)
\* The positions along the way of a list of moves.
along(moves) == { replay(SubSeq(moves, 1, k)) : k \in 0..Len(moves) }

CellPositions ==
    along(ColumnsMoves) \cup along(GapMoves) \cup along(DiagonalMoves)
        \cup along(OpenFourMoves) \cup { replay(nearlyFull(FullHoles)) }

InitCells ==
    /\ gameModel \in CellPositions
    /\ inputs = 0..MaxRadius
    /\ now = 1
    /\ ops = 0
    /\ last = NoCall
    /\ prev = NoCall
    /\ Idle("medium")

GetRelevantEmptyCells ==
    /\ ops < MaxCalls
    /\ \E radius \in inputs :
         last' = [op |-> "getRelevantEmptyCells", args |-> radius,
                  ret |-> getRelevantEmptyCells(gameModel, radius),
                  before |-> gameModel]
    /\ prev' = last
    /\ ops' = ops + 1
    /\ UNCHANGED <<gameModel, now, inputs>>
    /\ UNCHANGED searchVars
    /\ UNCHANGED controlVars

NextCells == GetRelevantEmptyCells

SpecCells == InitCells /\ [][NextCells]_vars

(***************************************************************************)
(* setBoardSize applied to a position                                      *)
(***************************************************************************)
\* The sizes the caller passes: the two the game offers and others.
Sizes == {0, 9, 13, 15, 19, 20}

InitSize ==
    /\ gameModel \in CellPositions
    /\ inputs = Sizes
    /\ now = 1
    /\ ops = 0
    /\ last = NoCall
    /\ prev = NoCall
    /\ Idle("medium")

SetBoardSize ==
    /\ ops < MaxCalls
    /\ \E size \in inputs :
         LET r == setBoardSize(gameModel, size)
         IN  /\ gameModel' = r.g
             /\ last' = [op |-> "setBoardSize", args |-> size, ret |-> r.ret,
                         before |-> gameModel]
    /\ prev' = last
    /\ ops' = ops + 1
    /\ UNCHANGED <<now, inputs>>
    /\ UNCHANGED searchVars
    /\ UNCHANGED controlVars

NextSize == SetBoardSize

SpecSize == InitSize /\ [][NextSize]_vars

(***************************************************************************)
(* Snapshots: getGameState, JSON.stringify and JSON.parse of ConfigManager, *)
(* loadGameState.  A JSON text is kept as the tree of its values, a number  *)
(* as its decimal digits, null as the literal null, a string between       *)
(* quotes.                                                                  *)
(***************************************************************************)
\* getGameState()
getGameState(g) ==
    [ boardSize     |-> g.boardSize,
      board         |-> [r \in DOMAIN g.board |-> [c \in DOMAIN g.board[r] |-> g.board[r][c]]],
      currentPlayer |-> g.currentPlayer,
      gameStatus    |-> g.gameStatus,
      winner        |-> g.winner,
      winLine       |-> [i \in 1..Len(g.winLine) |-> g.winLine[i]],
      moveHistory   |-> [i \in 1..Len(g.moveHistory) |-> g.moveHistory[i]],
      moveCount     |-> g.moveCount,
      startTime     |-> g.startTime ]

\* A mutant of loadGameState: startTime is not taken from the snapshot.
loadGameStateNoClock(g, state) ==
    [ boardSize     |-> state.boardSize,
      board         |-> state.board,
      currentPlayer |-> state.currentPlayer,
      gameStatus    |-> state.gameStatus,
      winner        |-> state.winner,
      winLine       |-> state.winLine,
      moveHistory   |-> state.moveHistory,
      moveCount     |-> state.moveCount,
      startTime     |-> g.startTime ]

\* loadGameState(state) on the object g
loadGameState(g, state) ==
    [g EXCEPT
       !.boardSize = state.boardSize,
       !.board = [r \in DOMAIN state.board |->
                     [c \in DOMAIN state.board[r] |-> state.board[r][c]]],
       !.currentPlayer = state.currentPlayer,
       !.gameStatus = state.gameStatus,
       !.winner = state.winner,
       !.winLine = [i \in 1..Len(state.winLine) |-> state.winLine[i]],
       !.moveHistory = [i \in 1..Len(state.moveHistory) |-> state.moveHistory[i]],
       !.moveCount = state.moveCount,
       !.startTime = state.startTime]

\* The decimal digits of a natural number, and the number of decimal digits.
RECURSIVE digitsOf(_)
digitsOf(n) == IF n < 10 THEN <<n>> ELSE Append(digitsOf(n \div 10), n % 10)

RECURSIVE numberOf(_)
numberOf(text) ==
    IF Len(text) = 1 THEN text[1]
    ELSE (10 * numberOf(SubSeq(text, 1, Len(text) - 1))) + text[Len(text)]

\* JSON.stringify of a number, of a string, and of a value that is a number
\* or null (null being 0 in winner and startTime).
jsonNumber(n) == [kind |-> "number", text |-> digitsOf(n)]

jsonString(str) == [kind |-> "string", text |-> <<"\"", str, "\"">>]

jsonNullable(n) == IF n = 0 THEN [kind |-> "null", text |-> <<>>] ELSE jsonNumber(n)

\* JSON.parse of such texts.
parseNumber(json) == numberOf(json.text)

parseString(json) == json.text[2]

parseNullable(json) == IF json.kind = "null" THEN 0 ELSE numberOf(json.text)

\* JSON.stringify(gameState)
stringify(state) ==
    [ boardSize     |-> jsonNumber(state.boardSize),
      board         |-> [r \in DOMAIN state.board |->
                            [c \in DOMAIN state.board[r] |->
                                jsonNumber(state.board[r][c])]],
      currentPlayer |-> jsonNumber(state.currentPlayer),
      gameStatus    |-> jsonString(state.gameStatus),
      winner        |-> jsonNullable(state.winner),
      winLine       |-> [i \in 1..Len(state.winLine) |->
                            [row |-> jsonNumber(state.winLine[i].row),
                             col |-> jsonNumber(state.winLine[i].col)]],
      moveHistory   |-> [i \in 1..Len(state.moveHistory) |->
                            [row |-> jsonNumber(state.moveHistory[i].row),
                             col |-> jsonNumber(state.moveHistory[i].col),
                             player |-> jsonNumber(state.moveHistory[i].player),
                             timestamp |-> jsonNumber(state.moveHistory[i].timestamp)]],
      moveCount     |-> jsonNumber(state.moveCount),
      startTime     |-> jsonNullable(state.startTime) ]

\* JSON.parse(saved)
parse(saved) ==
    [ boardSize     |-> parseNumber(saved.boardSize),
      board         |-> [r \in DOMAIN saved.board |->
                            [c \in DOMAIN saved.board[r] |->
                                parseNumber(saved.board[r][c])]],
      currentPlayer |-> parseNumber(saved.currentPlayer),
      gameStatus    |-> parseString(saved.gameStatus),
      winner        |-> parseNullable(saved.winner),
      winLine       |-> [i \in 1..Len(saved.winLine) |->
                            [row |-> parseNumber(saved.winLine[i].row),
                             col |-> parseNumber(saved.winLine[i].col)]],
      moveHistory   |-> [i \in 1..Len(saved.moveHistory) |->
                            [row |-> parseNumber(saved.moveHistory[i].row),
                             col |-> parseNumber(saved.moveHistory[i].col),
                             player |-> parseNumber(saved.moveHistory[i].player),
                             timestamp |-> parseNumber(saved.moveHistory[i].timestamp)]],
      moveCount     |-> parseNumber(saved.moveCount),
      startTime     |-> parseNullable(saved.startTime) ]

\* The ways a snapshot travels: handed over as it is, or written by
\* saveGameState and read by ConfigManager.loadGameState.
Routes == {"memory", "storage"}

\* The snapshot of the game is taken and loaded: as it is into the same
\* object, or through the storage into a new GameModel.
LoadGameState ==
    /\ ops < MaxOps
    /\ \E route \in Routes :
         LET state == getGameState(gameModel)
         IN  /\ gameModel' = IF route = "memory"
                             THEN loadGameState(gameModel, state)
                             ELSE loadGameState(NewGameModel,
                                                parse(stringify(state)))
             /\ last' = [op |-> "loadGameState", args |-> route, ret |-> Undefined,
                         before |-> gameModel]
    /\ prev' = last
    /\ ops' = ops + 1
    /\ UNCHANGED <<now, inputs>>
    /\ UNCHANGED searchVars
    /\ UNCHANGED controlVars

NextSnapshot == MakeMove \/ UndoMove \/ LoadGameState

SpecSnapshot == Init /\ [][NextSnapshot]_vars

(***************************************************************************)
(* GameController: the handlers of the user's events, the reply timer and   *)
(* makeAIMove, which is suspended for 800 ms between its entry check and   *)
(* its call of getBestMove.  A handler runs to its end before the next     *)
(* event is taken; the search inside makeAIMove runs in the steps of        *)
(* minimax above, and no event is taken before it has finished.            *)
(***************************************************************************)
MaxEvents == 5      \* the user causes no event after this many steps of a run

\* handleGameEnd(), as far as the controller's own fields go.
handleGameEnd(gc) == [gc EXCEPT !.isGameRunning = FALSE]

\* GameController.makeMove(row, col) at time t with the select at `mode`: the
\* return value, and the model, the controller and the event loop afterwards;
\* stone is the player handed to gameView.placeStone, 0 when it is not called.
controllerMakeMove(g, gc, mode, tk, row, col, t) ==
    LET r == makeMove(g, row, col, t)
        stone == IF r.g.currentPlayer = 1 THEN 2 ELSE 1
    IN  IF ~r.ret
        THEN [ret |-> FALSE, g |-> r.g, gc |-> gc, tasks |-> tk, stone |-> 0]
        ELSE IF r.g.gameStatus = "won" \/ r.g.gameStatus = "draw"
        THEN [ret |-> TRUE, g |-> r.g, gc |-> handleGameEnd(gc), tasks |-> tk,
              stone |-> stone]
        ELSE IF mode = "ai" /\ r.g.currentPlayer = 2
        THEN [ret |-> TRUE, g |-> r.g, gc |-> gc,
              tasks |-> [tk EXCEPT !.timers = @ + 1], stone |-> stone]
        ELSE [ret |-> TRUE, g |-> r.g, gc |-> gc, tasks |-> tk, stone |-> stone]

\* makeAIMove() up to its await: the controller and the event loop afterwards.
makeAIMoveBegin(g, gc, tk) ==
    IF ~gc.isGameRunning \/ g.currentPlayer # 2
    THEN [gc |-> gc, tasks |-> tk]
    ELSE [gc |-> [gc EXCEPT !.isAIThinking = TRUE],
          tasks |-> [tk EXCEPT !.awaiting = @ + 1]]

\* The user clicks a cell: handleCellClick(row, col), when it does not return
\* at once.
HandleCellClick ==
    /\ pc = "idle" /\ ops < MaxEvents /\ "click" \in inputs.events
    /\ gameController.isGameRunning /\ ~gameController.isAIThinking
    /\ ~(gameMode = "ai" /\ gameModel.currentPlayer = 2)
    /\ \E cell \in inputs.cells :
         LET r == controllerMakeMove(gameModel, gameController, gameMode, tasks,
                                     cell.row, cell.col, now)
         IN  /\ gameModel' = r.g
             /\ gameController' = r.gc
             /\ tasks' = r.tasks
             /\ last' = [op |-> "handleCellClick", args |-> cell, ret |-> r.ret,
                         before |-> gameModel, awaiting |-> tasks.awaiting,
                         stone |-> r.stone]
    /\ prev' = last
    /\ ops' = ops + 1
    /\ UNCHANGED <<now, inputs, gameMode>>
    /\ UNCHANGED searchVars

\* A reply timer of 500 ms fires: makeAIMove() runs up to its await.
ReplyTimer ==
    /\ pc = "idle"
    /\ tasks.timers > 0
    /\ LET r == makeAIMoveBegin(gameModel, gameController,
                                [tasks EXCEPT !.timers = @ - 1])
       IN  /\ gameController' = r.gc
           /\ tasks' = r.tasks
    /\ ops' = ops + 1
    /\ UNCHANGED <<gameModel, now, inputs, last, prev, gameMode>>
    /\ UNCHANGED searchVars

\* The user selects the other game mode: the change handler.
GameModeChange ==
    /\ pc = "idle" /\ ops < MaxEvents /\ "mode" \in inputs.events
    /\ \E mode \in {"human", "ai"} \ {gameMode} :
         /\ gameMode' = mode
         /\ LET r == IF gameController.isGameRunning /\ mode = "ai"
                        /\ gameModel.currentPlayer = 2
                     THEN makeAIMoveBegin(gameModel, gameController, tasks)
                     ELSE [gc |-> gameController, tasks |-> tasks]
            IN  /\ gameController' = r.gc
                /\ tasks' = r.tasks
    /\ ops' = ops + 1
    /\ UNCHANGED <<gameModel, now, inputs, last, prev>>
    /\ UNCHANGED searchVars

\* The 800 ms of an invocation of makeAIMove are over: it calls getBestMove.
AIMoveResume ==
    /\ pc = "idle"
    /\ tasks.awaiting > 0
    /\ Enter("makeAIMove", aiPlayer, 0, NoMove, NoMove)

\* getBestMove returns to makeAIMove: the move is made through
\* GameController.makeMove, and the finally block runs.
AIMoveApply ==
    /\ call.name = "makeAIMove"
    /\ pc = "found" \/ (pc = "ret" /\ stack = <<>>)
    /\ \E draw \in RandomDraws :
         \E aiMove \in getBestMoveEnd(aiPlayer, gameModel, pc = "found",
                                      retval.move, draw) :
            LET r == IF aiMove # NoMove
                     THEN controllerMakeMove(gameModel, gameController, gameMode,
                                             tasks, aiMove.row, aiMove.col, now)
                     ELSE [ret |-> FALSE, g |-> gameModel, gc |-> gameController,
                           tasks |-> tasks, stone |-> 0]
            IN  /\ gameModel' = r.g
                /\ gameController' = [r.gc EXCEPT !.isAIThinking = FALSE]
                /\ tasks' = [r.tasks EXCEPT !.awaiting = @ - 1]
                /\ last' = [op |-> "makeAIMove", args |-> aiMove, ret |-> r.ret,
                            before |-> gameModel, awaiting |-> tasks.awaiting,
                            player |-> gameModel.currentPlayer,
                            stone |-> r.stone]
    /\ prev' = last
    /\ pc' = "idle"
    /\ UNCHANGED <<aiPlayer, call, stack, retval, now, inputs, ops, gameMode>>

\* The user presses 'new game': startNewGame() with the board size of the
\* settings, which is the size of the game.
StartNewGame ==
    /\ pc = "idle" /\ ops < MaxEvents /\ "newGame" \in inputs.events
    /\ gameModel' = setBoardSize(reset(gameModel), gameModel.boardSize).g
    /\ gameController' = [gameController EXCEPT !.isGameRunning = TRUE]
    /\ last' = [op |-> "startNewGame", args |-> <<>>,
                before |-> gameModel, awaiting |-> tasks.awaiting]
    /\ prev' = last
    /\ ops' = ops + 1
    /\ UNCHANGED <<now, inputs, gameMode, tasks>>
    /\ UNCHANGED searchVars

\* The for loop of undoLastMove: undoMove() undoCount times.
RECURSIVE undoTimes(_, _)
undoTimes(g, undoCount) ==
    IF undoCount = 0 THEN g
    ELSE undoTimes(IF Len(g.moveHistory) > 0 THEN undoMove(g).g ELSE g,
                   undoCount - 1)

\* The user presses 'undo': undoLastMove(), when it does not return at once.
UndoLastMove ==
    /\ pc = "idle" /\ ops < MaxEvents /\ "undo" \in inputs.events
    /\ gameController.isGameRunning /\ Len(gameModel.moveHistory) # 0
    /\ LET undoCount == IF gameMode = "ai" /\ Len(gameModel.moveHistory) >= 2
                        THEN 2 ELSE 1
       IN  gameModel' = undoTimes(gameModel, undoCount)
    /\ last' = [op |-> "undoLastMove", args |-> <<>>,
                before |-> gameModel, awaiting |-> tasks.awaiting,
                mode |-> gameMode]
    /\ prev' = last
    /\ ops' = ops + 1
    /\ UNCHANGED <<now, inputs, gameMode, tasks, gameController>>
    /\ UNCHANGED searchVars

\* The user leaves the page during a game and opens it again: the beforeunload
\* handler saves the game, the timers and the suspended makeAIMove are gone
\* with the old page, and the new page loads the game with loadSavedGame().
\* The select shows the mode of the settings again, which is the mode of the
\* old page when the user has not changed it there.
LoadSavedGame ==
    /\ pc = "idle" /\ ops < MaxEvents /\ "reload" \in inputs.events
    /\ "mode" \notin inputs.events
    /\ gameController.isGameRunning
    /\ LET savedState == parse(stringify(getGameState(gameModel)))
           loaded == loadGameState(NewGameModel, savedState)
       IN  /\ gameModel' = loaded
           /\ gameController' = [isGameRunning |-> loaded.gameStatus = "playing",
                                 isAIThinking |-> FALSE]
    /\ tasks' = [timers |-> 0, awaiting |-> 0]
    /\ last' = [op |-> "loadSavedGame", args |-> <<>>, ret |-> TRUE,
                before |-> gameModel, awaiting |-> tasks.awaiting]
    /\ prev' = last
    /\ ops' = ops + 1
    /\ UNCHANGED <<now, inputs, gameMode>>
    /\ UNCHANGED searchVars

\* The games the page starts with: a new game, or a saved game in progress
\* loaded by loadSavedGame(); the mode and the difficulty of the settings; the
\* cells the user clicks and the events the user causes.
ControllerScenarios ==
    { [start |-> replay(nearlyFull(SearchHoles4)), mode |-> "human",
       difficulty |-> "easy", cells |-> cellsOf({ <<5, 11>>, <<6, 12>> }),
       events |-> {"click", "mode"}],
      [start |-> replay(nearlyFull(SearchHoles3)), mode |-> "ai",
       difficulty |-> "easy", cells |-> cellsOf({ <<8, 8>>, <<9, 7>> }),
       events |-> {"click", "mode", "undo"}],
      [start |-> replay(<<>>), mode |-> "ai",
       difficulty |-> "easy", cells |-> cellsOf({ <<0, 0>> }),
       events |-> {"click", "reload"}],
      [start |-> replay(<<>>), mode |-> "human",
       difficulty |-> "easy", cells |-> cellsOf({ <<0, 0>>, <<0, 1>> }),
       events |-> {"click", "undo", "newGame"}] }

InitController ==
    /\ \E s \in ControllerScenarios :
          /\ gameModel = s.start
          /\ inputs = [cells |-> s.cells, events |-> s.events]
          /\ now = Len(s.start.moveHistory) + 1
          /\ gameMode = s.mode
          /\ aiPlayer = NewAIPlayer(s.difficulty)
          /\ gameController = [isGameRunning |-> s.start.gameStatus = "playing",
                               isAIThinking |-> FALSE]
    /\ tasks = [timers |-> 0, awaiting |-> 0]
    /\ pc = "idle"
    /\ call = NoRequest
    /\ stack = <<>>
    /\ retval = NoResult
    /\ ops = 0
    /\ last = NoCall
    /\ prev = NoCall

NextController ==
    \/ HandleCellClick
    \/ ReplyTimer
    \/ GameModeChange
    \/ AIMoveResume
    \/ AIMoveApply
    \/ MinimaxEnter
    \/ MinimaxLoop
    \/ MinimaxResume
    \/ StartNewGame
    \/ UndoLastMove
    \/ LoadSavedGame

SpecController == InitController /\ [][NextController]_vars

\* The steps of AIMoveResume, told by where control goes: a suspended
\* makeAIMove leaves the idle event loop and enters getBestMove.
makeAIMoveResumes ==
    /\ pc = "idle" /\ tasks.awaiting > 0
    /\ pc' \in {"found", "call"}

\* The event loop runs what is due: a timer that was set fires, a suspended
\* makeAIMove is resumed, the search it calls runs to its end, and the move
\* it returns is made.
FairController ==
    /\ WF_tasks(ReplyTimer)
    /\ WF_pc(makeAIMoveResumes)
    /\ WF_pc(minimaxRuns)
    /\ WF_pc(callReturns)

SpecControllerFair == SpecController /\ FairController

(***************************************************************************)
(* Properties of the rules engine                                          *)
(***************************************************************************)
\* The last call was a makeMove that returned true.
accepted(c) == c.op = "makeMove" /\ c.ret

\* The fields of g the round-trip law names are those of h.
restored(g, h) ==
    /\ g.board = h.board
    /\ g.currentPlayer = h.currentPlayer
    /\ g.moveCount = h.moveCount
    /\ g.gameStatus = h.gameStatus
    /\ g.winner = h.winner
    /\ g.winLine = h.winLine
    /\ g.moveHistory = h.moveHistory

\* The four directions, each as the step to the next cell.
Steps == { <<0, 1>>, <<1, 0>>, <<1, 1>>, <<1, -1>> }

onBoard(g, r, c) == r \in 0..(g.boardSize - 1) /\ c \in 0..(g.boardSize - 1)

\* The largest k such that the k cells after (r, c) in direction (dr, dc) all
\* hold p's stone.
stretch(g, r, c, dr, dc, p) ==
    LET ks == {k \in 0..g.boardSize :
                 \A i \in 1..k : /\ onBoard(g, r + i * dr, c + i * dc)
                                 /\ g.board[r + i * dr][c + i * dc] = p}
    IN  CHOOSE k \in ks : \A j \in ks : j <= k

\* The length of the longest run of one colour through the stone at (r, c).
longestRun(g, r, c) ==
    LET p == g.board[r][c]
        runs == {1 + stretch(g, r, c, d[1], d[2], p)
                   + stretch(g, r, c, -d[1], -d[2], p) : d \in Steps}
    IN  CHOOSE k \in runs : \A j \in runs : j <= k

\* Some five consecutive cells in one direction hold stones of one player.
fiveOnBoard(g) ==
    \E r \in 0..(g.boardSize - 1), c \in 0..(g.boardSize - 1), d \in Steps :
        /\ g.board[r][c] # 0
        /\ \A i \in 1..4 : /\ onBoard(g, r + i * d[1], c + i * d[2])
                           /\ g.board[r + i * d[1]][c + i * d[2]] = g.board[r][c]

\* The cells of a move history, in order.
cellsPlayed(history) == [i \in 1..Len(history) |-> <<history[i].row, history[i].col>>]

\* C1: an accepted makeMove immediately followed by undoMove: the undo succeeds
\* and board, currentPlayer, moveCount, gameStatus, winner, winLine and
\* moveHistory are as they were before the makeMove, also when the move won
\* or drew the game.
RoundTripLaw ==
    (last.op = "undoMove" /\ accepted(prev)) =>
        (last.ret /\ restored(gameModel, prev.before))

\* C1 witness: a winning move has just been undone.
RoundTripOfWin ==
    /\ last.op = "undoMove" /\ accepted(prev)
    /\ last.before.gameStatus = "won"
    /\ prev.before.gameStatus = "playing"
    /\ gameModel.gameStatus = "playing"

\* C2: in a won game winLine has exactly 5 cells, each holds the winner's
\* stone, and each cell is one unit step from the one before it, the step being
\* the same along the line and one of the four directions.
WinLineShape ==
    gameModel.gameStatus = "won" =>
        LET line == gameModel.winLine
        IN  /\ Len(line) = 5
            /\ gameModel.winner \in {1, 2}
            /\ \A i \in 1..5 :
                 /\ onBoard(gameModel, line[i].row, line[i].col)
                 /\ gameModel.board[line[i].row][line[i].col] = gameModel.winner
            /\ \E d \in Steps :
                 \A i \in 1..4 : /\ line[i + 1].row = line[i].row + d[1]
                                 /\ line[i + 1].col = line[i].col + d[2]

\* C2 witness: a game won by the move that joined two runs into six in a row.
WonWithSix ==
    /\ gameModel.gameStatus = "won"
    /\ accepted(last)
    /\ longestRun(gameModel, last.args.row, last.args.col) = 6

\* C3: the game is won if and only if a scan of the whole board finds five
\* consecutive stones of one player.
WonIffFiveOnBoard ==
    (gameModel.gameStatus = "won") <=> fiveOnBoard(gameModel)

\* C3 witness: white has won on the diagonal /.
WonOnAntiDiagonal ==
    /\ gameModel.gameStatus = "won"
    /\ gameModel.winner = 2
    /\ gameModel.winLine[2].col = gameModel.winLine[1].col - 1
    /\ fiveOnBoard(gameModel)

\* C4: after an accepted move the game is drawn if and only if the board is
\* full and the move did not complete five in a row; a move that fills the
\* board and completes five in a row wins.
DrawIffFullWithoutFive ==
    accepted(last) =>
        LET size == gameModel.boardSize
            full == gameModel.moveCount = size * size
            five == longestRun(gameModel, last.args.row, last.args.col) >= 5
        IN  /\ (gameModel.gameStatus = "draw") <=> (full /\ ~five)
            /\ (full /\ five) => gameModel.gameStatus = "won"

\* C4 witness: the move that filled the board drew the game.
DrawnOnFullBoard ==
    /\ accepted(last)
    /\ gameModel.gameStatus = "draw"
    /\ gameModel.moveCount = 225

\* The scenario of C7: what is claimed of it.
ScenarioOfFour ==
    /\ cellsPlayed(gameModel.moveHistory) = FourMoves =>
           gameModel.gameStatus = "playing"
    /\ ( /\ Len(gameModel.moveHistory) = 9
         /\ SubSeq(cellsPlayed(gameModel.moveHistory), 1, 7) = FourMoves
         /\ cellsPlayed(gameModel.moveHistory)[9] = <<11, 7>> ) =>
           /\ gameModel.gameStatus = "won"
           /\ gameModel.winner = 1
           /\ gameModel.winLine = << Cell(7, 7), Cell(8, 7), Cell(9, 7),
                                     Cell(10, 7), Cell(11, 7) >>

\* C7 as claimed: a move that brings the run through the played cell to exactly
\* four leaves the game in progress, the game is won exactly by a move that
\* brings the run to five, and the scenario goes as described.
FourKeepsPlaying ==
    /\ accepted(last) =>
         LET run == longestRun(gameModel, last.args.row, last.args.col)
         IN  /\ run = 4 => gameModel.gameStatus = "playing"
             /\ (gameModel.gameStatus = "won") <=> (run >= 5)
    /\ ScenarioOfFour

\* C7 as amended: a move that brings the run through the played cell to exactly
\* four does not win: the game stays in progress, or is drawn when the move
\* filled the board; the game is won exactly by a move that brings the run to
\* five or more; and the scenario goes as described.
FourDoesNotWin ==
    /\ accepted(last) =>
         LET run == longestRun(gameModel, last.args.row, last.args.col)
             size == gameModel.boardSize
         IN  /\ run = 4 =>
                   gameModel.gameStatus =
                       IF gameModel.moveCount = size * size THEN "draw" ELSE "playing"
             /\ (gameModel.gameStatus = "won") <=> (run >= 5)
    /\ ScenarioOfFour

\* C7 witness: the scenario has been played to its end, black's fifth stone at
\* (11,7) after four in a row at (10,7).
ScenarioPlayed ==
    /\ Len(gameModel.moveHistory) = 9
    /\ SubSeq(cellsPlayed(gameModel.moveHistory), 1, 7) = FourMoves
    /\ cellsPlayed(gameModel.moveHistory)[9] = <<11, 7>>
    /\ accepted(last)
    /\ longestRun(prev.before, 10, 7) = 4

(***************************************************************************)
(* Properties of AIPlayer                                                  *)
(***************************************************************************)
\* A stone of player on the empty cell `move` of g makes a run of five or more.
completesFive(g, move, player) ==
    /\ onBoard(g, move.row, move.col)
    /\ g.board[move.row][move.col] = 0
    /\ longestRun([g EXCEPT !.board[move.row][move.col] = player],
                  move.row, move.col) >= 5

\* Some empty cell of g would give player five in a row.
canWin(g, player) ==
    \E r \in 0..(g.boardSize - 1), c \in 0..(g.boardSize - 1) :
        completesFive(g, Cell(r, c), player)

hasEmptyCell(g) ==
    \E r \in 0..(g.boardSize - 1), c \in 0..(g.boardSize - 1) : g.board[r][c] = 0

\* getBestMove has returned, called by the caller or by getHint.
bestMoveReturned == pc = "idle" /\ last.op \in {"getBestMove", "getHint"}

\* The player getBestMove played for in the call that returned last.
enginePlayer ==
    IF last.op = "getHint" THEN last.before.currentPlayer ELSE aiPlayer.player

\* C5: called on a game in progress with an empty cell, at any difficulty,
\* getBestMove returns a move, and the move is valid on that game (on the
\* board, on an empty cell, the game in progress), whatever Math.random()
\* returned.
BestMoveIsValid ==
    ( /\ bestMoveReturned
      /\ aiPlayer.difficulty \in Tiers
      /\ last.before.gameStatus = "playing"
      /\ hasEmptyCell(last.before) ) =>
        /\ last.ret # NoMove
        /\ isValidMove(last.before, last.ret.row, last.ret.col)

\* C5 witness: the search ran and the randomisation returned another move than
\* the one the search chose.
RandomMoveReturned ==
    /\ bestMoveReturned
    /\ last.before.gameStatus = "playing"
    /\ call.searched
    /\ last.ret # retval.move
    /\ isValidMove(last.before, last.ret.row, last.ret.col)

\* C6: when some empty cell would give the engine player five in a row,
\* getBestMove returns a cell that completes five for the engine player and
\* minimax is not called, at every difficulty, whatever Math.random() returned,
\* also when the opponent has a winning cell too.
WinningMoveFirst ==
    (bestMoveReturned /\ canWin(last.before, enginePlayer)) =>
        /\ completesFive(last.before, last.ret, enginePlayer)
        /\ ~call.searched

\* C6 witness: both sides had a winning cell and the engine took its own.
WonDespiteThreat ==
    /\ bestMoveReturned
    /\ canWin(last.before, enginePlayer)
    /\ canWin(last.before, IF enginePlayer = 1 THEN 2 ELSE 1)
    /\ completesFive(last.before, last.ret, enginePlayer)

\* C10: when an activation of minimax returns, and when getBestMove, getHint
\* or analyzePosition returns, board, currentPlayer, gameStatus, winner,
\* winLine, moveHistory and moveCount of the game are what they were when it
\* was called.
SearchRestoresGame ==
    /\ pc = "ret" => restored(gameModel, retval.entry)
    /\ (pc = "idle" /\ last.op \in Calls) => restored(gameModel, last.before)

\* C10 witness: in a search for white on a game with black to move, an
\* activation that was not the outermost has tried moves and returned, a
\* winning move among those tried under it.
InnerSearchReturned ==
    /\ pc = "ret" /\ stack # <<>>
    /\ retval.move # NoMove
    /\ retval.score \in {10000, -10000}
    /\ call.entry.currentPlayer # aiPlayer.player
    /\ restored(gameModel, retval.entry)

(***************************************************************************)
(* Properties of evaluateLine and getRelevantEmptyCells                    *)
(***************************************************************************)
\* The table of scores: own stones in the window, blocked cells fewer than 2.
scoreOf(own, blocked) ==
    CASE own = 5 -> 10000
      [] own = 4 -> IF blocked = 0 THEN 5000 ELSE 1000
      [] own = 3 -> IF blocked = 0 THEN 500 ELSE 100
      [] own = 2 -> IF blocked = 0 THEN 50 ELSE 10
      [] own = 1 -> IF blocked = 0 THEN 5 ELSE 1
      [] own = 0 -> 0

\* The cells of the window of a call of evaluateLine that are off the board,
\* hold the opponent's stone, hold the player's stone.
offBoard(a) ==
    { i \in 0..4 : ~ ( /\ a.row + i * a.dRow \in 0..(a.boardSize - 1)
                       /\ a.col + i * a.dCol \in 0..(a.boardSize - 1) ) }

opponents(a) ==
    { i \in (0..4) \ offBoard(a) :
        a.board[a.row + i * a.dRow][a.col + i * a.dCol] \notin {0, a.player} }

owns(a) ==
    { i \in (0..4) \ offBoard(a) :
        a.board[a.row + i * a.dRow][a.col + i * a.dCol] = a.player }

\* C9: evaluateLine scores a window of five cells 0 when two or more of them are
\* blocked (off the board or the opponent's), otherwise by the number of own
\* stones: 5 -> 10000, 4 -> 5000 unblocked and 1000 with one block, 3 -> 500
\* and 100, 2 -> 50 and 10, 1 -> 5 and 1, 0 -> 0; so three own stones with two
\* empty cells score 500, and with one cell off the board 100.
LineScoreTable ==
    last.op = "evaluateLine" =>
        LET blocked == Cardinality(offBoard(last.args) \cup opponents(last.args))
            own == Cardinality(owns(last.args))
        IN  /\ last.ret = IF blocked >= 2 THEN 0 ELSE scoreOf(own, blocked)
            /\ (own = 3 /\ blocked = 0) => last.ret = 500
            /\ (own = 3 /\ Cardinality(offBoard(last.args)) = 1
                        /\ opponents(last.args) = {}) => last.ret = 100

\* C9 witness: a window with three own stones and one cell off the board.
ThreeAtTheEdge ==
    /\ last.op = "evaluateLine"
    /\ Cardinality(owns(last.args)) = 3
    /\ Cardinality(offBoard(last.args)) = 1
    /\ opponents(last.args) = {}
    /\ last.ret = 100

\* The set of the cells in a list, and whether the list repeats a cell.
cellSet(cells) == { <<cells[i].row, cells[i].col>> : i \in 1..Len(cells) }

noDuplicates(cells) ==
    \A i, j \in 1..Len(cells) : cells[i] = cells[j] => i = j

occupiedCells(g) ==
    { rc \in (0..(g.boardSize - 1)) \X (0..(g.boardSize - 1)) :
        g.board[rc[1]][rc[2]] # 0 }

\* The empty cells of g at Chebyshev distance at most radius from a stone.
nearCells(g, radius) ==
    LET occupied == occupiedCells(g)
    IN  { rc \in ((0..(g.boardSize - 1)) \X (0..(g.boardSize - 1))) \ occupied :
            \E o \in occupied : /\ rc[1] - o[1] \in (-radius)..radius
                                /\ rc[2] - o[2] \in (-radius)..radius }

centreCells(g) ==
    LET center == g.boardSize \div 2
    IN  ((center - 1)..(center + 1)) \X ((center - 1)..(center + 1))

\* C8: getRelevantEmptyCells(radius) returns, without duplicates, exactly the
\* empty cells at Chebyshev distance at most radius from some occupied cell,
\* and on an empty board exactly the 9 cells around the centre, whatever the
\* radius.
RelevantCellsAreNear ==
    last.op = "getRelevantEmptyCells" =>
        /\ noDuplicates(last.ret)
        /\ cellSet(last.ret) =
             IF occupiedCells(last.before) = {} THEN centreCells(last.before)
             ELSE nearCells(last.before, last.args)

\* What the code does with radius 0 on a board with stones and with empty
\* cells around the centre: it returns those cells.
CentreAtRadiusZero ==
    ( /\ last.op = "getRelevantEmptyCells"
      /\ last.args = 0
      /\ occupiedCells(last.before) # {} ) =>
        cellSet(last.ret) = centreCells(last.before) \ occupiedCells(last.before)

\* From radius 1 on the statement of C8 holds.
RelevantCellsFromRadiusOne ==
    (last.op = "getRelevantEmptyCells" /\ last.args >= 1) =>
        /\ noDuplicates(last.ret)
        /\ cellSet(last.ret) =
             IF occupiedCells(last.before) = {} THEN centreCells(last.before)
             ELSE nearCells(last.before, last.args)

(***************************************************************************)
(* Further properties of the rules engine                                  *)
(***************************************************************************)
\* C11: makeMove on a cell off the board, on an occupied cell or on a finished
\* game returns false and leaves board, currentPlayer, gameStatus, winner,
\* winLine, moveHistory and moveCount as they were; undoMove with an empty
\* moveHistory returns false and leaves the object as it was.
RejectedChangesNothing ==
    /\ ( /\ last.op = "makeMove"
         /\ \/ ~onBoard(last.before, last.args.row, last.args.col)
            \/ last.before.board[last.args.row][last.args.col] # 0
            \/ last.before.gameStatus # "playing" ) =>
           (~last.ret /\ restored(gameModel, last.before))
    /\ (last.op = "undoMove" /\ Len(last.before.moveHistory) = 0) =>
           (~last.ret /\ gameModel = last.before)

\* C11 witness: a move on an empty cell of a won game has been rejected.
MoveOnWonGameRejected ==
    /\ last.op = "makeMove"
    /\ last.before.gameStatus = "won"
    /\ onBoard(last.before, last.args.row, last.args.col)
    /\ last.before.board[last.args.row][last.args.col] = 0
    /\ ~last.ret
    /\ gameModel = last.before

\* C12: setBoardSize with a size other than 15 and 19 is rejected, and the
\* caller is told: the call returns a value that a call with 15 or 19 does
\* not return.
BadSizeReported ==
    (last.op = "setBoardSize" /\ last.args \notin {15, 19}) =>
        /\ gameModel = last.before
        /\ last.ret # setBoardSize(last.before, DefaultBoardSize).ret

\* What the code does with a size other than 15 and 19: nothing, and it
\* returns what it returns for 15 and 19.
BadSizeIgnored ==
    (last.op = "setBoardSize" /\ last.args \notin {15, 19}) =>
        /\ gameModel = last.before
        /\ last.ret = Undefined

\* C14: on a won or drawn game every makeMove is rejected, and a won or drawn
\* game is in progress again only after undoMove.
FinishedIsTerminal ==
    /\ (last.op = "makeMove" /\ last.before.gameStatus \in {"won", "draw"}) =>
           (~last.ret /\ gameModel.gameStatus = last.before.gameStatus)
    /\ ( /\ last.op # "none"
         /\ last.before.gameStatus \in {"won", "draw"}
         /\ gameModel.gameStatus = "playing" ) =>
           last.op = "undoMove"

\* C14 witness: a move on a drawn game was rejected, then undoMove put the game
\* in progress again.
DrawReopenedByUndo ==
    /\ prev.op = "makeMove" /\ prev.before.gameStatus = "draw" /\ ~prev.ret
    /\ last.op = "undoMove" /\ last.before.gameStatus = "draw"
    /\ gameModel.gameStatus = "playing"

\* C15: a new game has player 1 to move; an accepted move that leaves the game
\* in progress passes the turn to the other player, an accepted move that wins
\* or draws leaves the turn where it was; the players recorded in moveHistory
\* are 1, 2, 1, 2, ... in order.
TurnsAlternate ==
    /\ Len(gameModel.moveHistory) = 0 => gameModel.currentPlayer = 1
    /\ accepted(last) =>
         gameModel.currentPlayer =
             IF gameModel.gameStatus = "playing"
             THEN otherPlayer(last.before.currentPlayer)
             ELSE last.before.currentPlayer
    /\ \A i \in 1..Len(gameModel.moveHistory) :
         gameModel.moveHistory[i].player = IF i % 2 = 1 THEN 1 ELSE 2

\* C15 witness: a winning move was taken back and another move played in its
\* place, which passed the turn.
MoveAfterUndoneWin ==
    /\ accepted(last)
    /\ prev.op = "undoMove" /\ prev.before.gameStatus = "won"
    /\ gameModel.gameStatus = "playing"
    /\ gameModel.currentPlayer = otherPlayer(last.before.currentPlayer)

\* C16: the winning line of a winning move is the first five cells of the run
\* through the played cell in the line's direction, counted from the end of
\* the run in the negative direction, also when the run is longer than five.
LongRunKeepsFirstFive ==
    (accepted(last) /\ gameModel.gameStatus = "won") =>
        LET line == gameModel.winLine
            d == <<line[2].row - line[1].row, line[2].col - line[1].col>>
            r == last.args.row
            c == last.args.col
            neg == stretch(gameModel, r, c, -d[1], -d[2], gameModel.winner)
            pos == stretch(gameModel, r, c, d[1], d[2], gameModel.winner)
        IN  /\ d \in Steps
            /\ neg + 1 + pos >= 5
            /\ line = [i \in 1..5 |->
                         Cell(r + (i - 1 - neg) * d[1], c + (i - 1 - neg) * d[2])]

\* C16 witness: black joined (3,0)..(3,2) and (3,4)..(3,6) into a run of
\* seven; the line is (3,0)..(3,4).
WonWithSeven ==
    /\ accepted(last) /\ gameModel.gameStatus = "won"
    /\ longestRun(gameModel, last.args.row, last.args.col) = 7
    /\ gameModel.winLine = << Cell(3, 0), Cell(3, 1), Cell(3, 2), Cell(3, 3),
                              Cell(3, 4) >>

\* C20: startTime is restored as well: after an accepted makeMove followed by
\* undoMove, and after getBestMove or getHint on any position, one without
\* moves included, startTime is what it was before.
StartTimeRestored ==
    /\ (last.op = "undoMove" /\ accepted(prev)) =>
           gameModel.startTime = prev.before.startTime
    /\ bestMoveReturned => gameModel.startTime = last.before.startTime

\* What the code does on a game without moves: the first trial move of the
\* search starts the clock, and taking it back does not stop it.
HintStartsClock ==
    (bestMoveReturned /\ call.searched /\ last.before.moveCount = 0) =>
        (last.before.startTime = 0 /\ gameModel.startTime = now)

(***************************************************************************)
(* Properties of the game under GameController                             *)
(***************************************************************************)
\* The moves lo..hi of a history placed on a grid, each with the stone of the
\* player recorded for it.
RECURSIVE stonesOnto(_, _, _, _)
stonesOnto(grid, history, lo, hi) ==
    IF lo > hi THEN grid
    ELSE IF lo = hi
    THEN [grid EXCEPT ![history[lo].row][history[lo].col] = history[lo].player]
    ELSE LET mid == (lo + hi) \div 2
             half == stonesOnto(grid, history, lo, mid)
         IN  IF half[0][0] >= 0 THEN stonesOnto(half, history, mid + 1, hi)
             ELSE half

\* C13: in every state of a game played by makeMove and undoMove, the trial
\* moves of a search included, the non-empty cells are the cells of
\* moveHistory, each holds the stone of the player recorded for its move, no
\* cell is recorded twice, moveCount is the length of moveHistory, and
\* moveHistory replayed onto an empty grid gives the board.
HistoryIsBoard ==
    LET g == gameModel
        h == g.moveHistory
    IN  /\ g.moveCount = Len(h)
        /\ \A i \in 1..Len(h) : /\ onBoard(g, h[i].row, h[i].col)
                                /\ g.board[h[i].row][h[i].col] = h[i].player
        /\ Cardinality({ <<h[i].row, h[i].col>> : i \in 1..Len(h) }) = Len(h)
        /\ occupiedCells(g) = { <<h[i].row, h[i].col>> : i \in 1..Len(h) }
        /\ stonesOnto(initializeBoard(g.boardSize), h, 1, Len(h)) = g.board

\* C13 witness: the user has taken moves back, and a search begun after that
\* has a trial move on the board.
TrialMoveAfterUndo ==
    /\ last.op = "undoLastMove"
    /\ pc = "call" /\ Len(stack) = 2
    /\ Len(gameModel.moveHistory) = Len(call.entry.moveHistory) + 1

\* C17: a click on a cell makes a move only when no invocation of makeAIMove
\* has begun and not yet finished.
ClicksWaitForAI ==
    (last.op = "handleCellClick" /\ last.ret) => last.awaiting = 0

\* C18: with the game mode at 'ai', a move that makeAIMove makes is made for
\* player 2.
AIPlaysWhite ==
    (last.op = "makeAIMove" /\ last.ret /\ gameMode = "ai") => last.player = 2

\* C19: at most one invocation of makeAIMove has begun and not yet finished.
OneAIMovePending == tasks.awaiting <= 1

(***************************************************************************)
(* Properties of the board size                                            *)
(***************************************************************************)
\* C21: once a move is recorded in moveHistory, setBoardSize changes neither
\* boardSize nor the grid.
BoardSizeFixed ==
    (last.op = "setBoardSize" /\ Len(last.before.moveHistory) > 0) =>
        /\ gameModel.boardSize = last.before.boardSize
        /\ gameModel.board = last.before.board

\* With moves recorded, setBoardSize(15) and setBoardSize(19) take the size
\* and empty the grid, and leave moveHistory and moveCount as they were.
SizeTakenDuringGame ==
    (last.op = "setBoardSize" /\ Len(last.before.moveHistory) > 0
        /\ last.args \in {15, 19}) =>
        /\ gameModel.boardSize = last.args
        /\ gameModel.board = initializeBoard(last.args)
        /\ gameModel.moveHistory = last.before.moveHistory
        /\ gameModel.moveCount = last.before.moveCount

(***************************************************************************)
(* Properties of the result of a rejected move                             *)
(***************************************************************************)
\* makeMove was refused on an empty cell of the board because the game was
\* over.
refusedAsOver ==
    /\ last.op = "makeMove" /\ ~last.ret
    /\ last.before.gameStatus # "playing"
    /\ isValidPosition(last.before, last.args.row, last.args.col)
    /\ getCell(last.before, last.args.row, last.args.col) = 0

\* C22: the result of a move refused because the game is over differs from
\* the result of a move refused because its cell is occupied: here the
\* results of the same game one move earlier, still being played, for each
\* of its stones.
RejectionTellsCause ==
    refusedAsOver =>
        LET playing == undoMove(last.before).g
        IN  \A cell \in occupiedCells(playing) :
                makeMove(playing, cell[1], cell[2], now).ret # last.ret

\* Both refusals give the result false and leave the game as it was.
RejectionIsFalse ==
    refusedAsOver =>
        LET playing == undoMove(last.before).g
        IN  /\ last.ret = FALSE
            /\ gameModel = last.before
            /\ playing.gameStatus = "playing"
            /\ occupiedCells(playing) # {}
            /\ \A cell \in occupiedCells(playing) :
                   makeMove(playing, cell[1], cell[2], now) =
                       [ret |-> FALSE, g |-> playing]

(***************************************************************************)
(* Properties of move selection                                            *)
(***************************************************************************)
\* C23: when no empty cell would give the engine player five in a row and
\* some empty cell would give the opponent five, getBestMove returns a cell
\* that completes five for the opponent and minimax is not called, at every
\* difficulty, whatever Math.random() returned; the second conjunct says of
\* the state in which getBestMove calls minimax that it is not such a
\* position.
BlockingMoveSecond ==
    /\ ( /\ bestMoveReturned
         /\ ~canWin(last.before, enginePlayer)
         /\ canWin(last.before, otherPlayer(enginePlayer)) ) =>
           /\ completesFive(last.before, last.ret, otherPlayer(enginePlayer))
           /\ ~call.searched
    /\ ( /\ pc = "call" /\ Len(stack) = 1
         /\ call.name \in {"getBestMove", "getHint"} ) =>
           \/ canWin(call.entry, aiPlayer.player)
           \/ ~canWin(call.entry, aiPlayer.opponent)

\* C23 witness: the opponent alone had a winning cell and getBestMove, with
\* the randomisation drawn, returned one of the opponent's winning cells.
ThreatBlocked ==
    /\ bestMoveReturned
    /\ last.before.gameStatus = "playing"
    /\ ~canWin(last.before, enginePlayer)
    /\ canWin(last.before, otherPlayer(enginePlayer))
    /\ completesFive(last.before, last.ret, otherPlayer(enginePlayer))
    /\ ~call.searched

(***************************************************************************)
(* Properties of the search                                                *)
(***************************************************************************)
\* Minimax over the moves of getRelevantEmptyCells(2) without alpha and beta:
\* every move of every position is tried, and of the moves with the best
\* score the first in the order of generation is kept.
RECURSIVE exhaustive(_, _, _, _)
RECURSIVE exhaustiveFrom(_, _, _, _, _, _, _)
exhaustiveFrom(ai, g, depth, maximizing, moves, i, best) ==
    IF i > Len(moves) THEN best
    ELSE LET mover == IF maximizing THEN ai.player ELSE ai.opponent
             played == makeMove([g EXCEPT !.currentPlayer = mover],
                                moves[i].row, moves[i].col, now).g
             result == exhaustive(ai, played, depth - 1, ~maximizing)
             better == IF maximizing THEN result.score > best.score
                       ELSE result.score < best.score
         IN  IF better
             THEN exhaustiveFrom(ai, g, depth, maximizing, moves, i + 1,
                                 [score |-> result.score,
                                  move |-> Cell(moves[i].row, moves[i].col)])
             ELSE exhaustiveFrom(ai, g, depth, maximizing, moves, i + 1, best)

exhaustive(ai, g, depth, maximizing) ==
    IF depth = 0 \/ g.gameStatus # "playing"
    THEN [score |-> evaluatePosition(ai, g), move |-> NoMove]
    ELSE exhaustiveFrom(ai, g, depth, maximizing, getRelevantEmptyCells(g, 2), 1,
                        [score |-> IF maximizing THEN -Infinite ELSE Infinite,
                         move |-> NoMove])

\* minimax called by getBestMove has returned to it.
rootReturned == pc = "ret" /\ stack = <<>> /\ call.searched

\* C24: minimax called with the window (-Infinity, Infinity) at the depth of
\* the difficulty returns the score of exhaustive minimax over the same
\* moves, and its move is the first move in the order of generation that has
\* this score.
PruningKeepsResult ==
    rootReturned =>
        LET full == exhaustive(aiPlayer, call.entry,
                               currentSettings(aiPlayer).depth, TRUE)
        IN  /\ retval.score = full.score
            /\ retval.move = full.move

\* C24 witness: minimax has returned to getBestMove with a move, and in the
\* search some loop was left by break with moves untried.
SearchCutBranches ==
    /\ rootReturned
    /\ retval.cut
    /\ retval.move # NoMove

(***************************************************************************)
(* Properties of the evaluation                                            *)
(***************************************************************************)
\* The four directions of a line, in the order of evaluateAllLines.
lineDirections == << <<0, 1>>, <<1, 0>>, <<1, 1>>, <<1, -1>> >>

\* The sum of evaluateLine for player over the windows numbered lo..hi, where
\* window 4 * (row * boardSize + col) + d starts at (row, col) and runs in
\* direction d + 1 of lineDirections.
RECURSIVE windowSum(_, _, _, _, _)
windowSum(board, boardSize, player, lo, hi) ==
    IF lo > hi THEN 0
    ELSE IF lo = hi
    THEN LET cell == lo \div 4
             d == lineDirections[(lo % 4) + 1]
         IN  evaluateLine(board, boardSize, cell \div boardSize,
                          cell % boardSize, d[1], d[2], player)
    ELSE LET mid == (lo + hi) \div 2
         IN  windowSum(board, boardSize, player, lo, mid)
             + windowSum(board, boardSize, player, mid + 1, hi)

\* The evaluation of g for the side `player` against `opponent`.
evaluationFor(g, player, opponent) ==
    IF g.gameStatus = "won" /\ g.winner = player THEN 10000
    ELSE IF g.gameStatus = "won" /\ g.winner = opponent THEN -10000
    ELSE IF g.gameStatus = "draw" THEN 0
    ELSE windowSum(g.board, g.boardSize, player, 0,
                   (4 * g.boardSize * g.boardSize) - 1)
         - windowSum(g.board, g.boardSize, opponent, 0,
                     (4 * g.boardSize * g.boardSize) - 1)

\* minimax has returned the evaluation of the position retval.entry.
positionEvaluated == pc = "ret" /\ call.searched /\ retval.move = NoMove

\* C25: evaluatePosition is 10000 on a game won by the engine player, -10000
\* on a game won by the opponent, 0 on a draw, and otherwise the sum of
\* evaluateLine over every cell and the four directions for the engine player
\* minus the same sum for the opponent; with the two roles exchanged it is
\* the negated value.
EvaluationIsDifference ==
    positionEvaluated =>
        LET exchanged ==
              evaluatePosition([aiPlayer EXCEPT !.player = aiPlayer.opponent,
                                                !.opponent = aiPlayer.player],
                               retval.entry)
        IN  /\ retval.score =
                   evaluationFor(retval.entry, aiPlayer.player, aiPlayer.opponent)
            /\ exchanged =
                   evaluationFor(retval.entry, aiPlayer.opponent, aiPlayer.player)
            /\ exchanged = -retval.score

\* C25 witness: a game in progress was evaluated and one side is ahead.
UnfinishedGameEvaluated ==
    /\ positionEvaluated
    /\ retval.entry.gameStatus = "playing"
    /\ retval.score # 0

(***************************************************************************)
(* Properties of the randomisation                                         *)
(***************************************************************************)
\* The first three moves, or fewer, of a list of moves.
topThree(moves) == { moves[i] : i \in 1..Min(3, Len(moves)) }

\* C26: when minimax has found a move, getBestMove returns that move or one
\* of the first three moves of getRelevantEmptyCells(2) of the position,
\* whatever Math.random() returned.
RandomMoveAmongTopThree ==
    (bestMoveReturned /\ call.searched /\ retval.move # NoMove) =>
        \/ last.ret = retval.move
        \/ last.ret \in topThree(getRelevantEmptyCells(last.before, 2))

\* C26 witness: there were more than three moves to choose from, and
\* getBestMove returned one of the first three that minimax had not chosen.
TopThreeMoveReturned ==
    /\ bestMoveReturned /\ call.searched /\ retval.move # NoMove
    /\ Len(getRelevantEmptyCells(last.before, 2)) > 3
    /\ last.ret # retval.move
    /\ last.ret \in topThree(getRelevantEmptyCells(last.before, 2))

(***************************************************************************)
(* Properties of hints and of the analysis                                 *)
(***************************************************************************)
\* C27: while getHint runs, the engine player is the side to move of the game
\* it was called on and the opponent the other side; when getHint has
\* returned, player and opponent are what they were before the call, and if
\* the side to move had a cell that completes five, the hint is such a cell.
HintForSideToMove ==
    /\ (pc # "idle" /\ call.name = "getHint") =>
          /\ aiPlayer.player = call.entry.currentPlayer
          /\ aiPlayer.opponent = otherPlayer(call.entry.currentPlayer)
    /\ (pc = "idle" /\ last.op = "getHint") =>
          /\ aiPlayer.player = call.player
          /\ aiPlayer.opponent = call.opponent
          /\ canWin(last.before, last.before.currentPlayer) =>
                completesFive(last.before, last.ret, last.before.currentPlayer)

\* C27 witness: player 1 was to move and had a winning cell, the AI plays for
\* player 2, and the hint is a winning cell of player 1.
WinningHintForBlack ==
    /\ pc = "idle" /\ last.op = "getHint"
    /\ last.before.currentPlayer = 1
    /\ canWin(last.before, 1)
    /\ completesFive(last.before, last.ret, 1)
    /\ aiPlayer.player = 2 /\ aiPlayer.opponent = 1

\* The hint that was explained was a cell completing five for the side that
\* asked for it.
winningHintExplained ==
    /\ last.op = "explainMove" /\ prev.op = "getHint"
    /\ completesFive(last.before, last.args, last.before.currentPlayer)

\* C28: when the hint is a cell that completes five for the side to move, the
\* explanation shown with it is that of a winning move, whether player 1 or
\* player 2 is to move.
WinningHintExplainedAsWin == winningHintExplained => last.ret = "win"

\* The explanation is that of a winning move when player 2 asked, and for
\* player 1 when the cell completes five for player 2 as well; otherwise
\* player 1 is told that the move blocks the opponent's threat.
WinningHintExplainedForWhite ==
    winningHintExplained =>
        last.ret = IF completesFive(last.before, last.args, aiPlayer.player)
                   THEN "win" ELSE "block"

\* analyzePosition has returned.
analysed == pc = "idle" /\ last.op = "analyzePosition"

\* C29: the evaluation analyzePosition reports is 'advantage' iff the score
\* is greater than 100, 'disadvantage' iff it is less than -100 and 'equal'
\* otherwise, the score being evaluatePosition of the game; immediateWin says
\* whether the side to move has an empty cell that completes five, and
\* needsDefense whether the other side has one.
AnalysisMatchesPosition ==
    analysed =>
        LET a == last.ret
            g == last.before
        IN  /\ a.score = evaluatePosition(aiPlayer, g)
            /\ a.evaluation \in {"advantage", "disadvantage", "equal"}
            /\ a.evaluation = "advantage" <=> a.score > 100
            /\ a.evaluation = "disadvantage" <=> a.score < -100
            /\ a.evaluation = "equal" <=> (a.score >= -100 /\ a.score <= 100)
            /\ a.immediateWin <=> canWin(g, g.currentPlayer)
            /\ a.needsDefense <=> canWin(g, otherPlayer(g.currentPlayer))

\* C29 witness: a position with the score of exactly 100 was analysed and
\* reported as 'equal', with a winning cell for each side.
ScoreOfHundredAnalysed ==
    /\ analysed
    /\ last.ret.score = 100
    /\ last.ret.evaluation = "equal"
    /\ last.ret.immediateWin /\ last.ret.needsDefense

(***************************************************************************)
(* Properties of snapshots                                                 *)
(***************************************************************************)
\* The nine fields of two games are the same.
sameGame(g, h) ==
    /\ g.boardSize = h.boardSize
    /\ g.board = h.board
    /\ g.currentPlayer = h.currentPlayer
    /\ g.gameStatus = h.gameStatus
    /\ g.winner = h.winner
    /\ g.winLine = h.winLine
    /\ g.moveHistory = h.moveHistory
    /\ g.moveCount = h.moveCount
    /\ g.startTime = h.startTime

\* C30: a game loaded from its own snapshot, handed over as it is or saved and
\* read back, has the boardSize, board, currentPlayer, gameStatus, winner,
\* winLine, moveHistory, moveCount and startTime of the game the snapshot was
\* taken of, and makeMove and undoMove after it have the results and leave
\* the games they have on the game the snapshot was taken of, for the moves
\* that follow the load as long as no other load intervenes.
SnapshotRoundTrip ==
    /\ last.op = "loadGameState" =>
          /\ sameGame(gameModel, last.before)
          /\ gameModel = last.before
    /\ (prev.op = "loadGameState" /\ last.op = "makeMove") =>
          [ret |-> last.ret, g |-> gameModel] =
              makeMove(prev.before, last.args.row, last.args.col, now)
    /\ (prev.op = "loadGameState" /\ last.op = "undoMove") =>
          [ret |-> last.ret, g |-> gameModel] = undoMove(prev.before)

\* C30 witness: a won game went through the storage, and its last move was
\* taken back on the loaded game.
WonGameLoadedAndUndone ==
    /\ prev.op = "loadGameState" /\ prev.args = "storage"
    /\ prev.before.gameStatus = "won"
    /\ Len(prev.before.winLine) = 5
    /\ last.op = "undoMove" /\ last.ret
    /\ gameModel.gameStatus = "playing"

(***************************************************************************)
(* Properties of the trial moves                                           *)
(***************************************************************************)
\* The cell of the last move of g.
lastCell(g) ==
    Cell(g.moveHistory[Len(g.moveHistory)].row,
         g.moveHistory[Len(g.moveHistory)].col)

\* An activation of minimax has just made a trial move and called minimax.
trialMade == pc = "call" /\ Len(stack) >= 2

\* The trial move on the board is a candidate of the position of its
\* activation: an empty cell at distance at most 2 from a stone, or one of
\* the 9 cells around the centre on the empty board.
TrialIsCandidate ==
    trialMade =>
        LET parent == stack[Len(stack) - 1]
            cell == lastCell(gameModel)
        IN  /\ Len(gameModel.moveHistory) = Len(parent.entry.moveHistory) + 1
            /\ parent.relevantMoves = getRelevantEmptyCells(parent.entry, 2)
            /\ parent.i \in 1..Len(parent.relevantMoves)
            /\ cell = parent.relevantMoves[parent.i]
            /\ <<cell.row, cell.col>> \in
                  IF occupiedCells(parent.entry) = {}
                  THEN centreCells(parent.entry)
                  ELSE nearCells(parent.entry, 2)

\* A step that makes a trial move plays the candidate whose number is the
\* pass of the loop, the first pass plays candidate 1, and the pass number
\* grows by one when the activation goes on after a trial.
TrialStep ==
    LET n == Len(stack)
    IN  /\ (pc = "call" /\ pc' = "loop") => stack'[n].i = 1
        /\ (pc = "loop" /\ pc' = "call") =>
              /\ lastCell(gameModel') =
                    getRelevantEmptyCells(gameModel, 2)[stack[n].i]
              /\ stack'[n].i = stack[n].i
        /\ (pc = "ret" /\ pc' = "loop") => stack'[n].i = stack[n].i + 1

\* C31: every trial move of the search is one of getRelevantEmptyCells(2) of
\* the position of its activation, an empty cell at distance at most 2 from a
\* stone or a cell of the centre 3x3 on the empty board, and each activation
\* tries its candidates in the order of generation.
TrialsAreCandidatesInOrder == []TrialIsCandidate /\ [][TrialStep]_vars

\* C31 witness: the third candidate of an activation under the outermost one
\* is on the board as a trial move.
ThirdCandidateTried ==
    /\ trialMade /\ Len(stack) = 3
    /\ stack[2].i = 3
    /\ lastCell(gameModel) = getRelevantEmptyCells(stack[2].entry, 2)[3]

(***************************************************************************)
(* Properties of undo under GameController                                 *)
(***************************************************************************)
\* undoLastMove has run in mode 'ai' on a game with two moves or more, and
\* nothing has touched the game since.
undoneInAIMode ==
    /\ pc = "idle" /\ last.op = "undoLastMove"
    /\ last.mode = "ai"
    /\ Len(last.before.moveHistory) >= 2

\* C32: in mode 'ai', with two moves or more recorded, undoLastMove takes
\* back the computer's latest move and the human's move before it, and it is
\* player 1's turn afterwards, also when the computer's reply is pending.
UndoReturnsTurnToHuman ==
    undoneInAIMode =>
        LET h == last.before.moveHistory
        IN  /\ gameModel.moveHistory = SubSeq(h, 1, Len(h) - 2)
            /\ h[Len(h)].player = 2
            /\ h[Len(h) - 1].player = 1
            /\ gameModel.currentPlayer = 1

\* What the code does: it takes back the last two moves whoever made them,
\* and the turn afterwards is that of the player of the earlier one.
UndoTakesLastTwo ==
    undoneInAIMode =>
        LET h == last.before.moveHistory
        IN  /\ gameModel.moveHistory = SubSeq(h, 1, Len(h) - 2)
            /\ gameModel.currentPlayer = h[Len(h) - 1].player

(***************************************************************************)
(* Properties of the view                                                  *)
(***************************************************************************)
\* GameController.makeMove has accepted a move, of the user or of the
\* computer.
moveShown == last.op \in {"handleCellClick", "makeAIMove"} /\ last.ret

\* The game after the move that was accepted.
gameShown == makeMove(last.before, last.args.row, last.args.col, now).g

\* C33: the stone the view is given for an accepted move has the colour of
\* the player the model recorded at the cell, also for a move that wins or
\* draws the game.
StoneShownIsStonePlayed ==
    moveShown =>
        last.stone = gameShown.board[last.args.row][last.args.col]

\* What the code does: the colours agree for a move after which the game goes
\* on, and a move that ends the game is shown in the other player's colour.
StoneShownUnlessGameEnds ==
    moveShown =>
        LET played == gameShown.board[last.args.row][last.args.col]
        IN  /\ played = last.before.currentPlayer
            /\ last.stone = IF gameShown.gameStatus = "playing" THEN played
                            ELSE otherPlayer(played)

(***************************************************************************)
(* Progress of the computer's reply                                        *)
(***************************************************************************)
\* No handler is running, the select is at 'ai', the game is running and
\* player 2 is to move.
computerToMove ==
    /\ pc = "idle"
    /\ gameMode = "ai"
    /\ gameController.isGameRunning
    /\ gameModel.currentPlayer = 2

\* The user causes no further event.
userQuiet == ops >= MaxEvents

\* The computer has made a move for player 2.
computerMoved == last.op = "makeAIMove" /\ last.ret /\ last.player = 2

\* A timer or a suspended makeAIMove is there to make the reply.
replyPending == tasks.timers > 0 \/ tasks.awaiting > 0

\* C34: in the mode against the computer, when the game is running, player 2
\* is to move and the user causes no further event, a move of the computer
\* is eventually made, also after a saved game with player 2 to move was
\* loaded.
ComputerEventuallyMoves == (computerToMove /\ userQuiet) ~> computerMoved

\* What the code does: the move is made when a reply is pending.
PendingReplyIsMade ==
    (computerToMove /\ userQuiet /\ replyPending) ~> computerMoved

\* A loaded game waits for the computer and no reply is pending.
LoadedGameWaitsForComputer ==
    computerToMove /\ last.op = "loadSavedGame" /\ ~replyPending

(***************************************************************************)
(* The status of the game and the fields that go with it                   *)
(***************************************************************************)
\* C35: in every state reached by makeMove and undoMove, a game in progress
\* has no winner and no winning line, a won game has for winner the player of
\* the last move of moveHistory, who is also currentPlayer, and a drawn game
\* has no winner.
StatusAgreesWithWinner ==
    LET g == gameModel
        n == Len(g.moveHistory)
    IN  /\ g.gameStatus \in {"playing", "won", "draw"}
        /\ g.gameStatus = "playing" => (g.winner = 0 /\ g.winLine = <<>>)
        /\ g.gameStatus = "won" =>
              /\ n > 0
              /\ g.winner = g.moveHistory[n].player
              /\ g.winner = g.currentPlayer
        /\ g.gameStatus = "draw" => g.winner = 0

\* C35 witness: white has won, the win was taken back, and white has won
\* again.
WhiteWonTwice ==
    /\ last.op = "makeMove" /\ last.ret
    /\ gameModel.gameStatus = "won" /\ gameModel.winner = 2
    /\ prev.op = "undoMove" /\ prev.ret
    /\ prev.before.gameStatus = "won"
    /\ last.before.gameStatus = "playing" /\ last.before.winner = 0

\* A drawn game has been reached by a move.
DrawnByMove ==
    last.op = "makeMove" /\ last.ret /\ gameModel.gameStatus = "draw"

(***************************************************************************)
(* The winning line and the winning move                                   *)
(***************************************************************************)
\* The last move of moveHistory.
lastMoveOf(g) == g.moveHistory[Len(g.moveHistory)]

\* C36: in a won game the five cells of winLine include the cell of the
\* winning move, the last one played, also when the run it completed is
\* longer than five.
WinLineHoldsWinningMove ==
    gameModel.gameStatus = "won" =>
        /\ Len(gameModel.moveHistory) > 0
        /\ \E i \in 1..Len(gameModel.winLine) :
              gameModel.winLine[i] = Cell(lastMoveOf(gameModel).row,
                                          lastMoveOf(gameModel).col)

\* C36 witness: black has won with (4,4) between four stones towards the
\* corner and one at (5,5): a run of six, of which winLine keeps the first
\* five, the last of them the winning move.
WonWithFifthOfSix ==
    /\ last.op = "makeMove" /\ last.ret
    /\ last.args = Cell(4, 4)
    /\ gameModel.gameStatus = "won"
    /\ Len(lineThrough(gameModel, 4, 4, 1, 1)) = 6
    /\ gameModel.winLine[5] = Cell(4, 4)
    /\ gameModel.board[5][5] = 1

(***************************************************************************)
(* The evaluation of a game in progress and the value of a win             *)
(***************************************************************************)
\* The score lies strictly between the values of a lost and of a won game.
belowWin(score) == -10000 < score /\ score < 10000

\* C37: the evaluation of a game in progress lies strictly between -10000 and
\* 10000, where analyzePosition evaluates the game it is given and where the
\* search evaluates a position.
UnfinishedGameBelowWin ==
    /\ (analysed /\ last.before.gameStatus = "playing") =>
           belowWin(last.ret.score)
    /\ (positionEvaluated /\ retval.entry.gameStatus = "playing") =>
           belowWin(retval.score)

\* Where the claim fails: a board with four empty cells and no five in a row,
\* white to move and neither side able to win at once, is evaluated below the
\* value of a lost game.
UnfinishedGameBelowLoss ==
    /\ analysed
    /\ last.before.gameStatus = "playing"
    /\ last.before.moveCount = 221
    /\ ~last.ret.immediateWin /\ ~last.ret.needsDefense
    /\ last.ret.score = -18090

(***************************************************************************)
(* The depth of the search and its end                                     *)
(***************************************************************************)
\* The trial moves on the board: moveHistory.length minus its length when the
\* call began.
outstanding == Len(gameModel.moveHistory) - Len(call.entry.moveHistory)

\* The activations of minimax that have made a trial move or are about to:
\* all but the innermost, and the innermost while it is in its loop.
searching == IF pc = "loop" THEN 1..Len(stack) ELSE 1..(Len(stack) - 1)

\* During a call no more trial moves are on the board than the tier's depth;
\* the i-th activation has the depth less i - 1, and one that tries moves has
\* depth above 0 and was called on a game in progress.
SearchWithinDepth ==
    (pc # "idle" /\ call.searched) =>
        /\ 0 <= outstanding
        /\ outstanding <= currentSettings(aiPlayer).depth
        /\ \A i \in 1..Len(stack) :
              stack[i].depth = currentSettings(aiPlayer).depth - (i - 1)
        /\ \A i \in searching :
              /\ stack[i].depth > 0
              /\ stack[i].entry.gameStatus = "playing"

\* C38: a call of getBestMove returns; while it runs the number of trial moves
\* on the board never exceeds the depth of the tier, and minimax tries no move
\* at depth 0 or on a finished game.
SearchEndsWithinDepth == []SearchWithinDepth /\ ((pc # "idle") ~> (pc = "idle"))

\* C38 witness: the search of the tier 'hard' has four trial moves on the
\* board, and on another line of the same search a game that a trial move
\* finished was evaluated with depth left.
FourTrialMovesOutstanding ==
    /\ pc = "call" /\ call.searched
    /\ aiPlayer.difficulty = "hard"
    /\ outstanding = 4
    /\ stack[Len(stack)].depth = 0

\* An activation with depth left was called on a finished game and returned
\* its evaluation.
FinishedGameNotSearched ==
    /\ positionEvaluated
    /\ retval.entry.gameStatus # "playing"
    /\ Len(stack) < currentSettings(aiPlayer).depth


(***************************************************************************)
(* C39: the win test of AIPlayer and the win test of GameModel             *)
(***************************************************************************)
\* GameModel.makeMove(row, col), called when it is player's turn, ends the
\* game as won.
wonByMove(g, player, row, col) ==
    makeMove([g EXCEPT !.currentPlayer = player], row, col, now).g.gameStatus = "won"

\* The empty cells on which player wins at once.
winningCells(g, player) ==
    { cell \in { Cell(r, c) : r \in 0..(g.boardSize - 1), c \in 0..(g.boardSize - 1) } :
        /\ g.board[cell.row][cell.col] = 0
        /\ wonByMove(g, player, cell.row, cell.col) }

\* The order in which the two for loops of findWinningMove visit the cells.
rowMajorBefore(a, b) == a.row < b.row \/ (a.row = b.row /\ a.col < b.col)

firstInRowMajor(cells) ==
    CHOOSE a \in cells : \A b \in cells : b = a \/ rowMajorBefore(a, b)

winTestAgrees(g, player) ==
    /\ \A r \in 0..(g.boardSize - 1), c \in 0..(g.boardSize - 1) :
          g.board[r][c] = 0 =>
              (aiCheckWin([g.board EXCEPT ![r][c] = player], g.boardSize, r, c, player)
                 <=> wonByMove(g, player, r, c))
    /\ LET found == findWinningMove(g.board, g.boardSize, player).move
           winning == winningCells(g, player)
       IN  IF winning = {} THEN found = NoMove
           ELSE found = firstInRowMajor(winning)

\* C39: in a game in progress, for either player and every empty cell,
\* AIPlayer.checkWin on the board with the player's stone on the cell is true
\* exactly when GameModel.makeMove by that player on the cell ends the game as
\* won; findWinningMove returns the first such cell in row-major order, and
\* none when there is no such cell.
WinTestAgreesWithRules ==
    gameModel.gameStatus = "playing" =>
        \A player \in {1, 2} : winTestAgrees(gameModel, player)

\* getBestMove has returned the first of two cells on which player 2 wins.
FirstOfTwoWinningCellsFound ==
    /\ pc = "idle" /\ last.op = "getBestMove"
    /\ Cardinality(winningCells(last.before, 2)) >= 2
    /\ last.ret = firstInRowMajor(winningCells(last.before, 2))
    /\ winningCells(last.before, 1) = {}

====
